---------------------------- MODULE Spec2Model ----------------------------
(***************************************************************************)
(* Verification model of the one-way vault mirror (Obsidian -> Drive):     *)
(*   - pLimit                     src/src/sync/concurrency.ts              *)
(*   - DriveClient.deleteFile     src/src/drive/driveClient.ts             *)
(*   - SyncManager.syncVault      src/src/sync/syncManager.ts              *)
(*   - ManifestManager            src/src/sync/remoteManifest.ts           *)
(*   - DriveClient.uploadFile     src/src/drive/driveClient.ts             *)
(* The specifications that share the module:                               *)
(*   SpecLimit   a limiter pLimit(n) fed with jobs that resolve or reject  *)
(*   SpecDelete  deleteFile / isDescendant over arbitrary parent metadata  *)
(*   SpecUpload  one uploadFile / updateFile call with its retries         *)
(*   Spec        syncVault runs over a small vault, with cancellation and  *)
(*               failing remote calls                                      *)
(*   SpecOrphan  Spec started from the orphan-cleanup scenario             *)
(*   SpecReentry SpecOrphan with syncVault also called while a run is live *)
(*   SpecForce   Spec with forceResync                                     *)
(*   SpecLoad    Spec over the contents the manifest object may have       *)
(*   SpecLost    Spec after the manifest was lost, with two failing calls  *)
(*   SpecSave    the incremental save of the transfer phase and the        *)
(*               saveManifest calls it and the final save make             *)
(*   SpecFolders ensureFolderStructure called by the dispatch loop and by  *)
(*               the transfer tasks of one run                             *)
(*   SpecNames   the listing of one remote folder and the smart recovery   *)
(*               of files that share a base name                           *)
(*   SpecLive    runs and force-resyncs with waitForObsidianSync, under    *)
(*               fair scheduling of calls, timers and continuations        *)
(*   SpecLimitFair  SpecLimit where every running job settles              *)
(***************************************************************************)
EXTENDS Integers, Sequences, FiniteSets, TLC

VARIABLES
    \* ---- pLimit (concurrency.ts) : the limiter closure
    lim,            \* [limit, activeCount, queue, running]
    job,            \* SpecLimit: job id -> "new" | "queued" | "running" | "resolved" | "rejected"
    startedBy,      \* SpecLimit: job id -> the job whose settling started it (0: started by enqueue)
    \* ---- DriveClient.deleteFile / isDescendant : one call and the remote metadata
    parents,        \* remote metadata: id -> sequence of parent ids
    dpc,            \* position of the deleteFile call
    dFileId, dScopeId, currentId, depth,
    lookups,        \* number of drive.files.get issued by the walk of this call
    requests,       \* mutating remote requests issued so far (set of records)
    isSafe,         \* what isDescendant returned, and where: "none" while it has not
    dResult,        \* how the call ended
    \* ---- DriveClient.uploadFile / updateFile : one call, its resumable attempts
    upc,            \* position of the call
    upKind,         \* "create" (uploadFile) | "update" (updateFile)
    size,           \* blob.size
    attempt,        \* attempt of uploadFileResumable / updateFileResumable
    calls,          \* fetchWithRetry calls of the attempt in progress: <<[op, url, range]>>
    session,        \* sessions opened by the server so far; Location of the last one
    \* ---- DriveClient.fetchWithRetry : the call in progress
    fpc,            \* "none" | "fetch" (a request is in flight) | "sleep" (backoff timer)
    fi,             \* loop index i
    backoff,        \* current backoff in ms
    slept,          \* delays waited by this call, in order
    sent,           \* requests issued by this call
    res,            \* outcome of the last request
    \* ---- SyncManager : fields
    isSyncing, cancelRequested, syncIndex, folderIdCache,
    rootFolderId,   \* cached id of the sync root (0: null)
    manifestId,     \* ManifestManager.manifestId: "null" | "live" (the manifest object under
                    \* the sync root) | "stale" (an object that went to the trash with its root)
    frpc,           \* position of the forceResync call
    \* ---- the vault, its settings and the remote side
    local, excludedFolders, syncImages, remote, savedManifest, savedIndex,
    remoteFolderPath,   \* settings.remoteFolderPath, as its '/'-separated segments
    rootGen, rootLive,  \* sync root folders created so far; the last one is not trashed
    manifestContent,    \* content of the manifest object under the sync root: "none" (no
                        \* object) | "manifest" (savedManifest) | "notJson" | "notManifest"
    \* ---- locals of the live syncVault call
    pc, status, remoteManifest, manifestValid, filesToSync, diffTodo, filesToUpload,
    folderTodo, curFolder, remoteFolderCache, keptRemotePaths, task,
    cleanTodo, cleanPath, flushed,
    \* ---- observation of a run (history)
    preManifest, diffHash, creates, updates, deletes, rejected, refused,
    taskFailed, delFailed, loadFailed,
    authExpired,    \* a transfer of the run failed at getAccessToken
    prev, editedSince,
    runs, fails,
    \* ---- the incremental save of the transfer phase and saveManifest
    now,                \* Date.now()
    lastSaveTime, filesSinceLastSave,
    completed,               \* items whose transfer completed in the run
    sv,                 \* per caller of saveManifest: where it stands, the content
                        \* it carries, the object id its request addresses
    objects,            \* content of the manifest objects under the sync root
    thisManifestId,     \* ManifestManager.manifestId as an object id (0: null)
    created,            \* manifest objects created
    indexDone,          \* items in the index on disk
    saveFails,
    \* ---- ensureFolderStructure within one run
    ens,                \* per resolver: where its call stands, the path it
                        \* resolves, the part the loop is at
    folderQueue,        \* filesByFolder: the folders the dispatch loop has to do
    resolved,           \* folders whose files were handed to the limiter
    folders,            \* the folders that exist under the sync root
    lookedUp, made,     \* per path: getFileId and createFolder calls of the run
    ensured, ensFails,
    \* ---- smart recovery by name: the files of one vault folder and its remote folder
    nmRemote,       \* objects of the remote folder: set of [id, name]
    nmCache,        \* remoteFolderCache of the folder: name -> id (0: no such key)
    nmManifest,     \* remoteManifest.files of the folder's files
    nmIndex,        \* settings.syncIndex of the folder's files
    nmTask,         \* file -> "none" | "queued" | "upload" | "done" | "failed"
    \* ---- waitForObsidianSync : the poll of the Obsidian Sync status
    polling,        \* the interval is set
    checks,         \* ticks of the interval so far
    waitedRun       \* the run whose waitForObsidianSync has returned

limVars  == <<lim, job, startedBy>>
delVars  == <<parents, dpc, dFileId, dScopeId, currentId, depth, lookups, requests,
              isSafe, dResult>>
upVars   == <<upc, upKind, size, attempt, calls, session, fpc, fi, backoff, slept, sent, res>>
mgrVars  == <<isSyncing, cancelRequested, syncIndex, folderIdCache>>
manVars  == <<manifestId, manifestContent>>
rootVars == <<rootFolderId, rootGen, rootLive>>
frcVars  == <<frpc, remoteFolderPath>>
envVars  == <<local, excludedFolders, syncImages, remote, savedManifest, savedIndex,
              manVars, rootVars, frcVars>>
runVars  == <<pc, status, remoteManifest, manifestValid, filesToSync, diffTodo, filesToUpload,
              folderTodo, curFolder, remoteFolderCache, keptRemotePaths, task,
              cleanTodo, cleanPath, flushed>>
obsVars  == <<preManifest, diffHash, creates, updates, deletes, rejected, refused,
              taskFailed, delFailed, loadFailed, authExpired, prev, editedSince,
              runs, fails>>
syncVars == <<mgrVars, envVars, runVars, obsVars>>
savVars  == <<now, lastSaveTime, filesSinceLastSave, completed, sv, objects, thisManifestId,
              created, indexDone, saveFails>>
fldVars  == <<ens, folderQueue, resolved, folders, lookedUp, made, ensured, ensFails>>
nmVars   == <<nmRemote, nmCache, nmManifest, nmIndex, nmTask>>
waitVars == <<polling, checks, waitedRun>>
vars     == <<limVars, delVars, upVars, savVars, fldVars, nmVars, waitVars, syncVars>>

(***************************************************************************)
(* Bounds of the model                                                     *)
(***************************************************************************)
MaxJobs  == 4      \* SpecLimit: jobs handed to one limiter
MaxLimit == 2      \* SpecLimit: limits 1..MaxLimit are tried
MaxRuns  == 2      \* Spec: syncVault calls that get past the guards
MaxItems == 4      \* SpecSave: items that complete in one behaviour
MaxTicks == 2      \* SpecSave: times the clock moves past the save interval
MaxEnsures == 3    \* SpecFolders: uploadFile calls that resolve their folder
MaxFails == 1      \* Spec: remote / file-system calls that fail in one behaviour

(***************************************************************************)
(* Program constants                                                       *)
(***************************************************************************)
MAX_DEPTH      == 50   \* driveClient.ts: isDescendant
TransferLimit  == 2    \* syncManager.ts: pLimit(2)
CheckpointCount    == 50       \* syncManager.ts: filesSinceLastSave >= 50
CheckpointInterval == 30000    \* syncManager.ts: now - lastSaveTime > 30000
maxAttempts    == 3    \* driveClient.ts: uploadFileResumable, updateFileResumable
retries        == 3    \* driveClient.ts: fetchWithRetry(url, init, retries = 3, ...)
BaseBackoff    == 1000 \* driveClient.ts: fetchWithRetry(..., backoff = 1000), in ms
SIMPLE_UPLOAD_LIMIT == 5 * 1024 * 1024     \* driveClient.ts: 5MB

NoScope == 1 - 1       \* deleteFile called without scopeId (undefined)

(***************************************************************************)
(* pLimit(limit): queue, activeCount, next, run, enqueue.                  *)
(* The closure is the record L = [limit, activeCount, queue, running];     *)
(* running is the set of jobs whose run() is awaiting fn().                *)
(***************************************************************************)
pLimit(n) == [limit |-> n, activeCount |-> 0, queue |-> <<>>, running |-> {}]

\* run(fn, resolve, reject) up to its await: activeCount++ and fn() is called
runUncounted(L, j) == [L EXCEPT !.running = @ \cup {j}]

run(L, j) == [L EXCEPT !.activeCount = @ + 1, !.running = @ \cup {j}]

\* next(): activeCount--, then the first queued job, if any, is shifted and run
nextWithoutShift(L) == [L EXCEPT !.activeCount = @ - 1]

next(L) ==
    LET L1 == [L EXCEPT !.activeCount = @ - 1]
    IN  IF Len(L1.queue) > 0
        THEN run([L1 EXCEPT !.queue = Tail(@)], Head(L1.queue))
        ELSE L1

\* enqueue(fn): run the job now when activeCount < limit, else push it
enqueueBelowOrEqual(L, j) ==
    IF L.activeCount <= L.limit THEN run(L, j)
    ELSE [L EXCEPT !.queue = Append(@, j)]

enqueue(L, j) ==
    IF L.activeCount < L.limit THEN run(L, j)
    ELSE [L EXCEPT !.queue = Append(@, j)]

\* the finally-block of run(): fn() of job j has settled, next() follows
settle(L, j) == next([L EXCEPT !.running = @ \ {j}])

\* the jobs that next() starts when a job settles: the head of the queue, if any
startedByNext(L) == IF Len(L.queue) > 0 THEN {Head(L.queue)} ELSE {}

(***************************************************************************)
(* DriveClient.deleteFile(fileId, scopeId?) and isDescendant               *)
(***************************************************************************)
DIds == {1, 2, 3}                 \* remote object ids of SpecDelete
ParentLists ==                    \* res.data.parents: absent/empty, one or two parents
    {<<>>} \cup {<<a>> : a \in DIds} \cup ({<<a, b>> : a, b \in DIds} \ {<<a, a>> : a \in DIds})

includes(seq, x) == \E i \in 1..Len(seq) : seq[i] = x

\* the request deleteFile issues once the scope check has passed
PermanentDeleteRequest(fileId) == [op |-> "files.delete", fileId |-> fileId, trashed |-> FALSE]

TrashRequest(fileId) == [op |-> "files.update", fileId |-> fileId, trashed |-> TRUE]

\* if (scopeId && fileId !== scopeId): is the ancestor walk needed?
needsScopeCheckSkipped(fileId, scopeId) == FALSE

needsScopeCheck(fileId, scopeId) == scopeId # NoScope /\ fileId # scopeId

\* while (depth < MAX_DEPTH): does the walk go round again?
walkContinuesUnbounded(d) == TRUE

walkContinues(d) == d < MAX_DEPTH

\* deleteFile entered: the scope check starts, or is skipped
DeleteCall(f, s) ==
    /\ dpc = "idle"
    /\ dFileId' = f /\ dScopeId' = s
    /\ currentId' = f /\ depth' = 0 /\ lookups' = 0
    /\ dpc' = IF needsScopeCheck(f, s) THEN "walk" ELSE "trash"
    /\ UNCHANGED <<parents, requests, isSafe, dResult, limVars, upVars, savVars, fldVars, nmVars, waitVars, syncVars>>

\* isDescendant returned false (why says at which return): deleteFile throws the
\* security violation
SecurityBlock(why) ==
    /\ isSafe' = why
    /\ dpc' = "done" /\ dResult' = "security"

\* one round of the loop of isDescendant: drive.files.get(currentId, 'parents') fails
WalkLookupFails ==
    /\ dpc = "walk"
    /\ lookups' = lookups + 1
    /\ SecurityBlock("lookupFailed")
    /\ UNCHANGED <<parents, dFileId, dScopeId, currentId, depth, requests, limVars, upVars, savVars, fldVars, nmVars, waitVars, syncVars>>

\* one round of the loop of isDescendant: the lookup answers
WalkLookup ==
    /\ dpc = "walk"
    /\ lookups' = lookups + 1
    /\ LET ps == parents[currentId] IN
       IF Len(ps) = 0
       THEN SecurityBlock("noParents") /\ UNCHANGED <<currentId, depth>>
       ELSE IF includes(ps, dScopeId)
       THEN dpc' = "trash" /\ isSafe' = "found" /\ UNCHANGED <<currentId, depth, dResult>>
       ELSE /\ currentId' = ps[1]
            /\ depth' = depth + 1
            /\ IF walkContinues(depth + 1)
               THEN UNCHANGED <<dpc, isSafe, dResult>>
               ELSE SecurityBlock("depthExhausted")
    /\ UNCHANGED <<parents, dFileId, dScopeId, requests, limVars, upVars, savVars, fldVars, nmVars, waitVars, syncVars>>

\* drive.files.update({fileId, requestBody: {trashed: true}}): issued, then ok or not
Trash(ok) ==
    /\ dpc = "trash"
    /\ requests' = requests \cup {TrashRequest(dFileId)}
    /\ dpc' = "done"
    /\ dResult' = IF ok THEN "ok" ELSE "error"
    /\ UNCHANGED <<parents, dFileId, dScopeId, currentId, depth, lookups, isSafe, limVars, upVars, savVars, fldVars, nmVars, waitVars, syncVars>>

TrashOk   == Trash(TRUE)
TrashFail == Trash(FALSE)

DeleteEnter == \E f \in DIds, s \in DIds \cup {NoScope} : DeleteCall(f, s)

NextDelete ==
    \/ DeleteEnter
    \/ WalkLookup
    \/ WalkLookupFails
    \/ TrashOk
    \/ TrashFail


(***************************************************************************)
(* DriveClient.uploadFile / updateFile: simple or resumable by size; the   *)
(* resumable operation (uploadFileResumable, updateFileResumable) and      *)
(* fetchWithRetry, which carries each of its two requests.                 *)
(* A response is [status, text410]: status 0 stands for a fetch() that     *)
(* threw (no response), text410 says that the body text (the message of    *)
(* the thrown error) contains "410".                                       *)
(***************************************************************************)
NoByte   == 0 - 1
NoRange  == [first |-> NoByte, last |-> NoByte, total |-> NoByte]
Endpoint == 1 - 1      \* the upload endpoint of the API: not a session location

Statuses     == {200, 404, 408, 410, 429, 500, 599}
Responses    == {[status |-> 200, text410 |-> FALSE]} \cup
                {[status |-> st, text410 |-> b] : st \in (Statuses \ {200}) \cup {0}, b \in BOOLEAN}
NoResponse   == [status |-> 0, text410 |-> FALSE]
PayloadSizes == {0, SIMPLE_UPLOAD_LIMIT, SIMPLE_UPLOAD_LIMIT + 1, 2 * SIMPLE_UPLOAD_LIMIT}

\* res.ok
resOk(r) == r.status >= 200 /\ r.status < 300

threw(r) == r.status = 0

\* res.status === 408 || res.status === 429 || (res.status >= 500 && res.status < 600)
retryableAny(st) == TRUE

retryable(st) == st = 408 \/ st = 429 \/ (st >= 500 /\ st < 600)

\* blob.size > DriveClient.SIMPLE_UPLOAD_LIMIT
shouldUseResumable(n) == n > SIMPLE_UPLOAD_LIMIT

\* 'bytes */0' for an empty blob, else `bytes 0-${size - 1}/${size}`
buildContentRangeToSize(n) == [first |-> 0, last |-> n, total |-> n]

buildContentRange(n) ==
    IF n = 0
    THEN [first |-> NoByte, last |-> NoByte, total |-> 0]
    ELSE [first |-> 0, last |-> n - 1, total |-> n]

\* error.message?.includes('410') for `Failed to ...: ${status} ${txt}`
messageHas410(r) == r.status = 410 \/ r.text410

\* if (is410 && attempt < maxAttempts) continue
restartsOnNever(is410, att) == FALSE

restartsOn(is410, att) == is410 /\ att < maxAttempts

\* uploadFile / updateFile: the blob is built, the protocol is chosen; the first
\* attempt of the resumable operation asks for the access token
UploadCall(kind, n) ==
    /\ upc = "idle"
    /\ upKind' = kind /\ size' = n
    /\ calls' = <<>>
    /\ IF shouldUseResumable(n)
       THEN attempt' = 1 /\ upc' = "token"
       ELSE attempt' = 0 /\ upc' = "multipart"
    /\ UNCHANGED <<session, fpc, fi, backoff, slept, sent, res>>
    /\ UNCHANGED <<limVars, delVars, savVars, fldVars, nmVars, waitVars, syncVars>>

UploadEnter == \E kind \in {"create", "update"}, n \in PayloadSizes : UploadCall(kind, n)

\* uploadFileMultipart / updateFileMultipart returned or threw
Multipart(done) ==
    /\ upc = "multipart"
    /\ upc' = IF done THEN "done" ELSE "threw"
    /\ UNCHANGED <<upKind, size, attempt, calls, session, fpc, fi, backoff, slept, sent, res>>
    /\ UNCHANGED <<limVars, delVars, savVars, fldVars, nmVars, waitVars, syncVars>>

MultipartReturns == Multipart(TRUE)
MultipartThrows  == Multipart(FALSE)

\* catch (error) of the resumable operation: restart from the top of the loop
\* (attempt++, getAccessToken), or rethrow
Catch(is410) ==
    /\ fpc' = "none"
    /\ IF restartsOn(is410, attempt)
       THEN attempt' = attempt + 1 /\ upc' = "token" /\ calls' = <<>>
       ELSE upc' = "threw" /\ UNCHANGED <<attempt, calls>>

\* fetchWithRetry(url, init) is entered: i = 0, backoff = 1000, the first fetch is issued
FetchEnter(op, url) ==
    /\ calls' = Append(calls, [op |-> op, url |-> url,
                               range |-> IF op = "put" THEN buildContentRange(size) ELSE NoRange])
    /\ fpc' = "fetch" /\ fi' = 0 /\ backoff' = BaseBackoff
    /\ slept' = <<>> /\ sent' = 0

\* getAccessToken returned a token: 1. Initiate Resumable Session (POST / PATCH)
TokenOk ==
    /\ upc = "token"
    /\ upc' = "init"
    /\ FetchEnter("initiate", Endpoint)
    /\ UNCHANGED <<upKind, size, attempt, session, res>>
    /\ UNCHANGED <<limVars, delVars, savVars, fldVars, nmVars, waitVars, syncVars>>

\* getAccessToken threw, or returned no token ('No access token available')
TokenFails ==
    /\ upc = "token"
    /\ \E is410 \in BOOLEAN : Catch(is410)
    /\ UNCHANGED <<upKind, size, session, fi, backoff, slept, sent, res>>
    /\ UNCHANGED <<limVars, delVars, savVars, fldVars, nmVars, waitVars, syncVars>>

\* await new Promise(resolve => setTimeout(resolve, backoff)) is started
Sleep ==
    /\ fpc' = "sleep"
    /\ slept' = Append(slept, backoff)
    /\ UNCHANGED <<upc, attempt, calls, session, fi, backoff>>

\* fetchWithRetry returns res to the resumable operation
Return(r) ==
    IF upc = "init"
    THEN IF ~resOk(r)
         THEN Catch(messageHas410(r)) /\ UNCHANGED <<session, fi, backoff, slept>>
         ELSE \E hasLocation \in BOOLEAN :
                 IF hasLocation
                 THEN /\ session' = session + 1
                      /\ upc' = "buffer" /\ fpc' = "none"
                      /\ UNCHANGED <<attempt, calls, fi, backoff, slept>>
                 ELSE Catch(FALSE) /\ UNCHANGED <<session, fi, backoff, slept>>
    ELSE IF ~resOk(r)
         THEN Catch(messageHas410(r)) /\ UNCHANGED <<session, fi, backoff, slept>>
         ELSE /\ upc' = "done" /\ fpc' = "none"
              /\ UNCHANGED <<attempt, calls, session, fi, backoff, slept>>

\* one round of the loop of fetchWithRetry: the fetch answers r, or throws
FetchResponds(r) ==
    /\ fpc = "fetch"
    /\ sent' = sent + 1
    /\ res' = r
    /\ IF threw(r) \/ (~resOk(r) /\ retryable(r.status))
       THEN IF fi = retries - 1
            THEN Catch(r.text410) /\ UNCHANGED <<session, fi, backoff, slept>>
            ELSE Sleep
       ELSE Return(r)
    /\ UNCHANGED <<upKind, size>>
    /\ UNCHANGED <<limVars, delVars, savVars, fldVars, nmVars, waitVars, syncVars>>

FetchAnswered == \E r \in Responses : FetchResponds(r)

\* the timer fires: backoff *= 2, i++, the next fetch is issued
SleepElapsed ==
    /\ fpc = "sleep"
    /\ backoff' = backoff * 2
    /\ fi' = fi + 1
    /\ fpc' = "fetch"
    /\ UNCHANGED <<upc, upKind, size, attempt, calls, session, slept, sent, res>>
    /\ UNCHANGED <<limVars, delVars, savVars, fldVars, nmVars, waitVars, syncVars>>

\* blob.arrayBuffer() returned: 2. Upload File Content (PUT to the Location)
PutStart ==
    /\ upc = "buffer"
    /\ upc' = "put"
    /\ FetchEnter("put", session)
    /\ UNCHANGED <<upKind, size, attempt, session, res>>
    /\ UNCHANGED <<limVars, delVars, savVars, fldVars, nmVars, waitVars, syncVars>>

NextUpload ==
    \/ UploadEnter
    \/ MultipartReturns
    \/ MultipartThrows
    \/ TokenOk
    \/ TokenFails
    \/ FetchAnswered
    \/ SleepElapsed
    \/ PutStart


(***************************************************************************)
(* The vault of the model: five files in three folders.                    *)
(*   A.md  B.png  sub/C.md  sub/D.md  ex/E.md                              *)
(***************************************************************************)
Paths     == {"A", "B", "C", "D", "E"}
PathOrder == <<"A", "B", "C", "D", "E">>     \* order of app.vault.getFiles() and of the manifest keys
Folders   == {"/", "sub", "ex"}

Segs(p) ==
    CASE p = "A" -> <<"A.md">>
      [] p = "B" -> <<"B.png">>
      [] p = "C" -> <<"sub", "C.md">>
      [] p = "D" -> <<"sub", "D.md">>
      [] p = "E" -> <<"ex", "E.md">>

Ext(p)      == IF p = "B" THEN "png" ELSE "md"
FolderOf(p) == IF Len(Segs(p)) = 1 THEN "/" ELSE Segs(p)[1]     \* file.parent?.path || ''
isDocType(p) == Ext(p) = "md" \/ Ext(p) = "canvas"

Mismatch   == 0 - 1     \* the hash 'mismatch' of the forced-overwrite placeholder
Versions   == {1, 2}    \* contents of a local file; version v has hash v and mtime v
UploadTime == 1 + CHOOSE v \in Versions : \A w \in Versions : w <= v   \* server time of a write: later than any local mtime

NoFile  == [hash |-> 0, mtime |-> 0]                       \* no such local file
NoEntry == [driveId |-> 0, hash |-> 0]                     \* manifest.files[p] undefined
NoIndex == [driveId |-> 0, hash |-> 0, lastModified |-> 0] \* settings.syncIndex[p] undefined
NoObj   == [id |-> 0, md5 |-> 0, modifiedTime |-> 0]       \* no remote object of that name
Has(e)    == e.driveId # 0
Exists(o) == o.id # 0

EmptyManifest == [p \in Paths |-> NoEntry]             \* createEmptyManifest().files
Keys(m)       == {p \in Paths : Has(m[p])}              \* Object.keys(manifest.files)
Zero          == [p \in Paths |-> 0]
NoIndexes     == [p \in Paths |-> NoIndex]           \* settings.syncIndex = {}
NoObjects     == [p \in Paths |-> NoObj]             \* nothing under the remote root

\* the elements of a sequence, and a sequence filtered in order
Range(seq) == {seq[i] : i \in 1..Len(seq)}
RECURSIVE SelectInOrder(_, _)
SelectInOrder(seq, S) ==
    IF seq = <<>> THEN <<>>
    ELSE IF Head(seq) \in S THEN <<Head(seq)>> \o SelectInOrder(Tail(seq), S)
    ELSE SelectInOrder(Tail(seq), S)

\* excludedFolders.some(ex => path === ex || path.startsWith(ex + '/'))
isExcludedNever(path, exs) == FALSE

isExcluded(path, exs) ==
    \E ex \in exs :
        \/ Segs(path) = <<ex>>
        \/ Len(Segs(path)) > 1 /\ SubSeq(Segs(path), 1, 1) = <<ex>>

\* the filter of syncVault over app.vault.getFiles()
accepted(p) ==
    /\ local[p] # NoFile
    /\ ~isExcluded(p, excludedFolders)
    /\ \/ Ext(p) = "md"
       \/ Ext(p) = "png" /\ syncImages

\* the hash the diff pass and the transfer task work with: the cached one when
\* the index entry carries the file's mtime and a hash, else a fresh one
hashIsCachedNever(p) == FALSE

hashIsCached(p) ==
    /\ syncIndex[p] # NoIndex
    /\ syncIndex[p].lastModified = local[p].mtime
    /\ syncIndex[p].hash # 0
localHashOf(p) == IF hashIsCached(p) THEN syncIndex[p].hash ELSE local[p].hash

\* if (remoteEntry && remoteEntry.hash === localHash): skip
upToDateNever(remoteEntry, localHash) == FALSE

upToDate(remoteEntry, localHash) == Has(remoteEntry) /\ remoteEntry.hash = localHash

\* the index entry after the refresh of the skip branch
refreshedIndex(p, remoteEntry, localHash) ==
    IF syncIndex[p] = NoIndex \/ syncIndex[p].lastModified # local[p].mtime
    THEN [driveId |-> remoteEntry.driveId, hash |-> localHash, lastModified |-> local[p].mtime]
    ELSE syncIndex[p]

\* filesByFolder: the folders of filesToUpload in order of first appearance
RECURSIVE FoldersOf(_, _)
FoldersOf(seq, seen) ==
    IF seq = <<>> THEN <<>>
    ELSE IF FolderOf(Head(seq)) \in seen THEN FoldersOf(Tail(seq), seen)
    ELSE <<FolderOf(Head(seq))>> \o FoldersOf(Tail(seq), seen \cup {FolderOf(Head(seq))})

\* limit(task) for each file of a list, in order
RECURSIVE enqueueAll(_, _)
enqueueAll(L, seq) ==
    IF seq = <<>> THEN L ELSE enqueueAll(enqueue(L, Head(seq)), Tail(seq))


(***************************************************************************)
(* SyncManager.syncVault                                                   *)
(*                                                                         *)
(* pc follows the awaits of the method:                                    *)
(*   idle -> init -> load -> diff -> dispatch <-> resolve -> list          *)
(*        -> await -> clean <-> cleanDel -> save -> idle                   *)
(*                 -> saveCancel -> idle                                   *)
(* task[p] follows the transfer task of file p inside the limiter:         *)
(*   none -> queued -> yield -> call -> settled      (ret: returned at     *)
(*   the cancel check, its run() not yet resumed)                          *)
(* remote[p] is the remote object that carries the search name of p in the *)
(* folder of p (the five names differ).                                    *)
(***************************************************************************)
CanFail == fails < MaxFails

\* if (this.isSyncing) { Notice('Already in progress'); return; }
alreadyInProgressNever(syncing) == FALSE

alreadyInProgress(syncing) == syncing

\* await Promise.all(promises): every promise handed out by limit() has settled
NoTaskLeftUnawaited == TRUE

NoTaskLeft == \A p \in Paths : task[p] \in {"none", "settled"}

\* the finally block left out: isSyncing stays as it is
EndRunSyncing(st) ==
    /\ pc' = "idle"
    /\ status' = st
    /\ UNCHANGED isSyncing

\* catch (globalError) / finally of syncVault, and the normal ends
EndRun(st) ==
    /\ isSyncing' = FALSE
    /\ pc' = "idle"
    /\ status' = st

SyncVaultRejected ==
    /\ alreadyInProgress(isSyncing)
    /\ ~rejected
    /\ rejected' = TRUE
    /\ refused' = FALSE
    /\ UNCHANGED <<mgrVars, envVars, runVars, limVars, delVars, upVars, savVars, fldVars, nmVars, waitVars>>
    /\ UNCHANGED <<preManifest, diffHash, creates, updates, deletes, taskFailed, delFailed,
                   loadFailed, authExpired, prev, editedSince, runs, fails>>

\* the guards are passed: isSyncing = true, cancelRequested = false, folderIdCache.clear();
\* the locals of the new call are not yet assigned
\* (the model follows the tasks of one run at a time: a run starts once the
\*  tasks of the run before it have settled)
RunStart ==
    /\ isSyncing' = TRUE
    /\ cancelRequested' = FALSE
    /\ folderIdCache' = {}
    /\ pc' = "init"
    /\ status' = "Initializing"
    /\ prev' = [status |-> status, taskFailed |-> taskFailed]
    /\ editedSince' = FALSE
    /\ runs' = runs + 1
    /\ creates' = Zero /\ updates' = Zero /\ deletes' = {}
    /\ diffHash' = Zero
    /\ preManifest' = EmptyManifest
    /\ taskFailed' = FALSE /\ delFailed' = FALSE /\ loadFailed' = FALSE /\ authExpired' = FALSE
    /\ rejected' = FALSE /\ refused' = FALSE
    /\ remoteManifest' = EmptyManifest /\ manifestValid' = TRUE
    /\ filesToSync' = <<>> /\ diffTodo' = <<>> /\ filesToUpload' = <<>>
    /\ folderTodo' = <<>> /\ curFolder' = "/"
    /\ remoteFolderCache' = [p \in Paths |-> NoObj]
    /\ keptRemotePaths' = {}
    /\ task' = [p \in Paths |-> "none"]
    /\ cleanTodo' = <<>> /\ cleanPath' = "A" /\ flushed' = FALSE
    /\ UNCHANGED <<limVars, delVars, upVars, savVars, fldVars, nmVars, waitVars, fails>>

SyncVaultStart ==
    /\ ~alreadyInProgress(isSyncing)
    /\ runs < MaxRuns
    /\ NoTaskLeft
    /\ RunStart
    /\ UNCHANGED <<syncIndex, envVars>>

\* cancelSync(): if (this.isSyncing) this.cancelRequested = true
CancelSync ==
    /\ isSyncing
    /\ ~cancelRequested
    /\ cancelRequested' = TRUE
    /\ status' = "Cancelling"
    /\ rejected' = FALSE /\ refused' = FALSE
    /\ UNCHANGED <<isSyncing, syncIndex, folderIdCache, envVars, limVars, delVars, upVars, savVars, fldVars, nmVars, waitVars>>
    /\ UNCHANGED <<pc, remoteManifest, manifestValid, filesToSync, diffTodo, filesToUpload, folderTodo,
                   curFolder, remoteFolderCache, keptRemotePaths, task, cleanTodo, cleanPath, flushed>>
    /\ UNCHANGED <<preManifest, diffHash, creates, updates, deletes, taskFailed, delFailed,
                   loadFailed, authExpired, prev, editedSince, runs, fails>>

\* what every step of syncVault and of forceResync leaves alone
CallFrame ==
    /\ rejected' = FALSE /\ refused' = FALSE
    /\ UNCHANGED <<cancelRequested, local, excludedFolders, syncImages, delVars, upVars, savVars, fldVars, nmVars, waitVars, job, startedBy>>
    /\ UNCHANGED <<remoteFolderPath, prev, editedSince>>

\* what every step of a run leaves alone, but for the two that resolve the root
\* and load the manifest
RunFrame ==
    /\ CallFrame
    /\ UNCHANGED <<manifestValid, rootVars, frpc, runs>>

\* an exception reaches the global catch: status Failed, isSyncing false
RunAborts ==
    /\ EndRun("Failed")
    /\ RunFrame
    /\ UNCHANGED <<syncIndex, folderIdCache, remote, savedManifest, savedIndex, manVars, lim>>
    /\ UNCHANGED <<remoteManifest, filesToSync, diffTodo, filesToUpload, folderTodo,
                   curFolder, remoteFolderCache, keptRemotePaths, task, cleanTodo, cleanPath, flushed>>
    /\ UNCHANGED <<preManifest, diffHash, creates, updates, deletes, taskFailed, delFailed, loadFailed, authExpired>>

\* a step of the run that fails, with the global catch
RunFails ==
    /\ CanFail
    /\ fails' = fails + 1
    /\ RunAborts

\* getVaultRoot: the cached id, or resolveRemoteRoot(rootPath): every segment is
\* looked up (trashed = false) and created when it is not found
getVaultRoot ==
    IF rootFolderId # 0
    THEN UNCHANGED rootVars
    ELSE /\ rootGen' = IF rootLive THEN rootGen ELSE rootGen + 1
         /\ rootLive' = TRUE
         /\ rootFolderId' = rootGen'

\* syncProjects, waitForObsidianSync and getVaultRoot have returned
RootResolved ==
    /\ pc = "init"
    /\ pc' = "load"
    /\ getVaultRoot
    /\ CallFrame
    /\ UNCHANGED <<manifestValid, frpc, runs>>
    /\ UNCHANGED <<isSyncing, status, syncIndex, folderIdCache, remote, savedManifest, savedIndex, manVars, lim, fails>>
    /\ UNCHANGED <<remoteManifest, filesToSync, diffTodo, filesToUpload, folderTodo,
                   curFolder, remoteFolderCache, keptRemotePaths, task, cleanTodo, cleanPath, flushed>>
    /\ UNCHANGED <<preManifest, diffHash, creates, updates, deletes, taskFailed, delFailed, loadFailed, authExpired>>

\* getVaultRoot throws: the run ends Failed
RootFails == pc = "init" /\ RunFails

\* loadManifest(rootId): getFileId finds the manifest object or not, or throws;
\* the id is cached; getFileContent returns the content or null; JSON.parse
\* returns a value or throws. Every exception is caught and gives null.
\* how: "loaded" (no call fails) | "lookupFailed" | "fetchFailed"
loadManifest(how) ==
    LET found == manifestContent # "none" /\ how # "lookupFailed"
        parsed == found /\ how = "loaded" /\ manifestContent \in {"manifest", "notManifest"}
    IN  [id |-> IF found THEN "live" ELSE manifestId,
         \* the value is null
         isNull |-> ~parsed,
         \* the value is a manifest: it has the files map
         valid |-> ~parsed \/ manifestContent = "manifest",
         files |-> IF parsed /\ manifestContent = "manifest" THEN savedManifest ELSE EmptyManifest]

\* loadManifest returned (a manifest, or null: then createEmptyManifest()); the
\* local files are listed and filtered, the limiter and the kept set are created
Loaded(how) ==
    /\ pc = "load"
    /\ how = "fetchFailed" => manifestContent # "none"
    /\ LET l == loadManifest(how)
           files == SelectInOrder(PathOrder, {p \in Paths : accepted(p)})
       IN  /\ manifestId' = l.id
           /\ remoteManifest' = l.files
           /\ manifestValid' = l.valid
           /\ preManifest' = l.files
           /\ filesToSync' = files
           /\ diffTodo' = files
           /\ loadFailed' = (how # "loaded" \/ manifestContent \in {"notJson", "notManifest"})
    /\ filesToUpload' = <<>>
    /\ keptRemotePaths' = {}
    /\ lim' = pLimit(TransferLimit)
    /\ task' = [p \in Paths |-> "none"]
    /\ remoteFolderCache' = [p \in Paths |-> NoObj]
    /\ folderTodo' = <<>> /\ cleanTodo' = <<>>
    /\ status' = "Checking"
    /\ pc' = "diff"
    /\ CallFrame
    /\ UNCHANGED <<isSyncing, syncIndex, folderIdCache, remote, savedManifest, savedIndex,
                   manifestContent, rootVars, frpc, runs>>
    /\ UNCHANGED <<curFolder, cleanPath>>
    /\ flushed' = FALSE
    /\ UNCHANGED <<diffHash, creates, updates, deletes, taskFailed, delFailed, authExpired>>

ManifestLoaded == Loaded("loaded") /\ UNCHANGED fails

ManifestLoadFails ==
    /\ CanFail
    /\ fails' = fails + 1
    /\ \E how \in {"lookupFailed", "fetchFailed"} : Loaded(how)

\* the value that loadManifest returned has no files map: remoteManifest.files[path]
\* throws in the diff loop; Object.keys(remoteManifest.files) throws before Cleaning
ManifestThrows ==
    /\ ~manifestValid
    /\ \/ pc = "diff" /\ ~cancelRequested /\ diffTodo # <<>>
       \/ pc = "await" /\ ~cancelRequested /\ NoTaskLeft
    /\ RunAborts
    /\ UNCHANGED fails


(***************************************************************************)
(* Diff pass: for (const file of filesToSync)                              *)
(***************************************************************************)
\* one file is classified: skipped (index refreshed, kept) or pushed to filesToUpload
DiffClassify ==
    /\ pc = "diff"
    /\ manifestValid
    /\ ~cancelRequested
    /\ diffTodo # <<>>
    /\ LET p == Head(diffTodo)
           localHash == localHashOf(p)
           remoteEntry == remoteManifest[p]
       IN  /\ diffHash' = [diffHash EXCEPT ![p] = localHash]
           /\ IF upToDate(remoteEntry, localHash)
              THEN /\ syncIndex' = [syncIndex EXCEPT ![p] = refreshedIndex(p, remoteEntry, localHash)]
                   /\ keptRemotePaths' = keptRemotePaths \cup {p}
                   /\ UNCHANGED filesToUpload
              ELSE /\ filesToUpload' = Append(filesToUpload, p)
                   /\ UNCHANGED <<syncIndex, keptRemotePaths>>
    /\ diffTodo' = Tail(diffTodo)
    /\ RunFrame
    /\ UNCHANGED <<isSyncing, folderIdCache, remote, savedManifest, savedIndex, manVars, lim, fails>>
    /\ UNCHANGED <<pc, status, remoteManifest, filesToSync, folderTodo, curFolder,
                   remoteFolderCache, task, cleanTodo, cleanPath, flushed>>
    /\ UNCHANGED <<preManifest, creates, updates, deletes, taskFailed, delFailed, loadFailed, authExpired>>

\* calculateFileHash throws in the diff loop, which no try block surrounds
DiffHashFails ==
    /\ pc = "diff"
    /\ manifestValid
    /\ ~cancelRequested
    /\ diffTodo # <<>>
    /\ ~hashIsCached(Head(diffTodo))
    /\ RunFails

\* the loop is over (all files seen, or cancel): filesByFolder is built
\* for (const file of filesToSync) { if (this.cancelRequested) break; ... } is left
diffOverAlways == TRUE

diffOver == cancelRequested \/ diffTodo = <<>>

DiffEnd ==
    /\ pc = "diff"
    /\ diffOver
    /\ folderTodo' = FoldersOf(filesToUpload, {})
    /\ pc' = "dispatch"
    /\ RunFrame
    /\ UNCHANGED <<isSyncing, syncIndex, folderIdCache, remote, savedManifest, savedIndex, manVars, lim, fails>>
    /\ UNCHANGED <<status, remoteManifest, filesToSync, diffTodo, filesToUpload, curFolder,
                   remoteFolderCache, keptRemotePaths, task, cleanTodo, cleanPath, flushed>>
    /\ UNCHANGED <<preManifest, diffHash, creates, updates, deletes, taskFailed, delFailed, loadFailed, authExpired>>

(***************************************************************************)
(* Dispatch: for (const [folderPath, folderFiles] of filesByFolder)        *)
(***************************************************************************)
\* top of the loop: break on cancel or at the end, else ensureFolderStructure is awaited
DispatchNext ==
    /\ pc = "dispatch"
    /\ IF cancelRequested \/ folderTodo = <<>>
       THEN pc' = "await" /\ UNCHANGED <<folderTodo, curFolder>>
       ELSE pc' = "resolve" /\ curFolder' = Head(folderTodo) /\ folderTodo' = Tail(folderTodo)
    /\ RunFrame
    /\ UNCHANGED <<isSyncing, syncIndex, folderIdCache, remote, savedManifest, savedIndex, manVars, lim, fails>>
    /\ UNCHANGED <<status, remoteManifest, filesToSync, diffTodo, filesToUpload,
                   remoteFolderCache, keptRemotePaths, task, cleanTodo, cleanPath, flushed>>
    /\ UNCHANGED <<preManifest, diffHash, creates, updates, deletes, taskFailed, delFailed, loadFailed, authExpired>>

\* ensureFolderStructure(folderPath) returned; listFilesInFolder is awaited
FolderResolved ==
    /\ pc = "resolve"
    /\ folderIdCache' = IF curFolder = "/" THEN folderIdCache ELSE folderIdCache \cup {curFolder}
    /\ pc' = "list"
    /\ RunFrame
    /\ UNCHANGED <<isSyncing, syncIndex, remote, savedManifest, savedIndex, manVars, lim, fails>>
    /\ UNCHANGED <<status, remoteManifest, filesToSync, diffTodo, filesToUpload, folderTodo,
                   curFolder, remoteFolderCache, keptRemotePaths, task, cleanTodo, cleanPath, flushed>>
    /\ UNCHANGED <<preManifest, diffHash, creates, updates, deletes, taskFailed, delFailed, loadFailed, authExpired>>

\* getFileId / createFolder throws inside ensureFolderStructure: global catch,
\* while the tasks of the folders before this one are still in the limiter
FolderFails ==
    /\ pc = "resolve"
    /\ curFolder # "/"
    /\ curFolder \notin folderIdCache
    /\ RunFails

\* listFilesInFolder returned (the listing, or an empty map when it failed);
\* unless cancel was requested, every file of the folder is handed to limit()
Listed(ok) ==
    /\ pc = "list"
    /\ remoteFolderCache' =
          [p \in Paths |-> IF FolderOf(p) = curFolder /\ ok THEN remote[p] ELSE remoteFolderCache[p]]
    /\ LET folderFiles == SelectInOrder(filesToUpload, {p \in Paths : FolderOf(p) = curFolder})
       IN  IF cancelRequested
           THEN UNCHANGED <<lim, task>>
           ELSE /\ lim' = enqueueAll(lim, folderFiles)
                /\ task' = [p \in Paths |->
                              IF p \in Range(folderFiles)
                              THEN IF p \in lim'.running THEN "yield" ELSE "queued"
                              ELSE task[p]]
    /\ pc' = "dispatch"
    /\ RunFrame
    /\ UNCHANGED <<isSyncing, syncIndex, folderIdCache, remote, savedManifest, savedIndex, manVars>>
    /\ UNCHANGED <<status, remoteManifest, filesToSync, diffTodo, filesToUpload, folderTodo,
                   curFolder, keptRemotePaths, cleanTodo, cleanPath, flushed>>
    /\ UNCHANGED <<preManifest, diffHash, creates, updates, deletes, taskFailed, delFailed, loadFailed, authExpired>>

FolderListed == Listed(TRUE) /\ UNCHANGED fails

FolderListFails == CanFail /\ fails' = fails + 1 /\ Listed(FALSE)


(***************************************************************************)
(* The transfer task of one file: limit(async () => { ... })               *)
(***************************************************************************)
\* SMART RECOVERY: no manifest entry, but the listing of the folder holds the name
recoveredNever(p, localHash) == [entry |-> remoteManifest[p], index |-> syncIndex[p]]

recovered(p, localHash) ==
    LET existingFile == remoteFolderCache[p]
        isUpToDate == IF isDocType(p)
                      THEN existingFile.modifiedTime > local[p].mtime
                      ELSE existingFile.md5 = localHash
    IN  IF ~Has(remoteManifest[p]) /\ Exists(existingFile)
        THEN IF isUpToDate
             THEN [entry |-> [driveId |-> existingFile.id, hash |-> localHash],
                   index |-> [driveId |-> existingFile.id, hash |-> localHash,
                              lastModified |-> local[p].mtime]]
             ELSE [entry |-> [driveId |-> existingFile.id, hash |-> Mismatch],
                   index |-> syncIndex[p]]
        ELSE [entry |-> remoteManifest[p], index |-> syncIndex[p]]

\* if (!remoteEntry || remoteEntry.hash !== localHash) await this.uploadFile(...)
needsUploadNever(remoteEntry, localHash) == FALSE

needsUpload(remoteEntry, localHash) == ~Has(remoteEntry) \/ remoteEntry.hash # localHash

\* the top of the task: if (this.cancelRequested) return; await yieldToEventLoop()
startsAsUnchecked(cancel) == "yield"

startsAs(cancel) == IF cancel THEN "ret" ELSE "yield"

\* the promise of the task settles: finally { next() } of run(); a job that next()
\* starts runs up to its first await (the yield), or returns at the cancel check
TaskSettles(p) ==
    /\ lim' = settle(lim, p)
    /\ task' = [q \in Paths |->
                  IF q = p THEN "settled"
                  ELSE IF q \in startedByNext(lim)
                       THEN startsAs(cancelRequested)
                       ELSE task[q]]

\* saveManifest(rootId, manifest): the object of the cached id is updated; without
\* a cached id, or when that update fails, the manifest is looked up by name under
\* the root and updated, or created. An update of an object that is in the trash
\* succeeds (staleOk: nothing under the root changes) or fails (fallback).
\* valid: the value written has the files map.
saveManifest(m, valid, staleOk) ==
    IF manifestId = "stale" /\ staleOk
    THEN UNCHANGED <<savedManifest, manVars>>
    ELSE /\ savedManifest' = IF valid THEN m ELSE savedManifest
         /\ manifestContent' = IF valid THEN "manifest" ELSE "notManifest"
         /\ manifestId' = "live"

\* Incremental Save Check: 50 files are never reached here, 30 s may have passed
\* since the last save (once in a run of the model): saveManifest, then onSaveSettings
Checkpoint(cp, m, ix) ==
    /\ cp => ~flushed
    /\ IF cp
       THEN (\E staleOk \in BOOLEAN : saveManifest(m, TRUE, staleOk)) /\ savedIndex' = ix
       ELSE UNCHANGED <<savedManifest, savedIndex, manVars>>
    /\ flushed' = (flushed \/ cp)

\* the task goes on after the yield, up to the remote transfer call or to its end
TaskResume(p) ==
    /\ task[p] = "yield"
    /\ status' = "Syncing"
    /\ LET localHash == localHashOf(p)
           r == recovered(p, localHash)
           m1 == [remoteManifest EXCEPT ![p] = r.entry]
           i1 == [syncIndex EXCEPT ![p] = r.index]
       IN  /\ remoteManifest' = m1
           /\ IF needsUpload(r.entry, localHash)
              THEN /\ task' = [task EXCEPT ![p] = "call"]
                   /\ creates' = IF Has(r.entry) THEN creates ELSE [creates EXCEPT ![p] = @ + 1]
                   /\ updates' = IF Has(r.entry) THEN [updates EXCEPT ![p] = @ + 1] ELSE updates
                   /\ syncIndex' = i1
                   /\ UNCHANGED <<lim, keptRemotePaths, savedManifest, savedIndex, manVars, flushed>>
              ELSE /\ syncIndex' =
                         [i1 EXCEPT ![p] =
                             IF i1[p] = NoIndex \/ i1[p].lastModified # local[p].mtime
                             THEN [driveId |-> r.entry.driveId, hash |-> localHash,
                                   lastModified |-> local[p].mtime]
                             ELSE i1[p]]
                   /\ keptRemotePaths' = keptRemotePaths \cup {p}
                   /\ \E cp \in BOOLEAN : Checkpoint(cp, m1, syncIndex')
                   /\ TaskSettles(p)
                   /\ UNCHANGED <<creates, updates>>
    /\ RunFrame
    /\ UNCHANGED <<isSyncing, folderIdCache, remote, fails>>
    /\ UNCHANGED <<pc, filesToSync, diffTodo, filesToUpload, folderTodo, curFolder,
                   remoteFolderCache, cleanTodo, cleanPath>>
    /\ UNCHANGED <<preManifest, diffHash, deletes, taskFailed, delFailed, loadFailed, authExpired>>

\* what a task that throws leaves: caught by the task's own catch, then settled
\* (auth: the exception is that of getAccessToken)
TaskThrows(p, auth) ==
    /\ CanFail
    /\ fails' = fails + 1
    /\ taskFailed' = TRUE
    /\ authExpired' = (authExpired \/ auth)
    /\ TaskSettles(p)
    /\ RunFrame
    /\ UNCHANGED <<isSyncing, folderIdCache, remote, savedManifest, savedIndex, manVars>>
    /\ UNCHANGED <<pc, filesToSync, diffTodo, filesToUpload, folderTodo, curFolder,
                   remoteFolderCache, keptRemotePaths, cleanTodo, cleanPath, flushed>>
    /\ UNCHANGED <<preManifest, diffHash, creates, updates, deletes, delFailed, loadFailed>>

\* calculateFileHash throws at the top of the task
TaskHashFails(p) ==
    /\ task[p] = "yield"
    /\ ~hashIsCached(p)
    /\ status' = "Syncing"
    /\ UNCHANGED <<remoteManifest, syncIndex>>
    /\ TaskThrows(p, FALSE)

\* uploadFile throws before its remote call (getFileContent, calculateFileHash),
\* after smart recovery has written its entry
TaskReadFails(p) ==
    /\ task[p] = "yield"
    /\ status' = "Syncing"
    /\ LET localHash == localHashOf(p)
           r == recovered(p, localHash)
       IN  /\ needsUpload(r.entry, localHash)
           /\ remoteManifest' = [remoteManifest EXCEPT ![p] = r.entry]
           /\ syncIndex' = [syncIndex EXCEPT ![p] = r.index]
    /\ TaskThrows(p, FALSE)

\* the id Drive gives to a file created for p by the run in progress: new at each create
freshId(p) == Cardinality(Paths) * runs + CHOOSE i \in 1..Len(PathOrder) : PathOrder[i] = p

\* uploadFile: manifest.files[file.path] = {path, driveId, hash, modifiedTime}
newEntryUnhashed(driveId, hash) == [driveId |-> driveId, hash |-> Mismatch]

newEntry(driveId, hash) == [driveId |-> driveId, hash |-> hash]

\* driveClient.updateFile / uploadFile returned: manifest and index are updated,
\* the path is kept, the task settles
TaskReturn(p) ==
    /\ task[p] = "call"
    /\ LET existingEntry == remoteManifest[p]
           hash == local[p].hash
           driveId == IF Has(existingEntry) THEN existingEntry.driveId ELSE freshId(p)
           obj == [id |-> driveId, md5 |-> IF isDocType(p) THEN 0 ELSE hash,
                   modifiedTime |-> UploadTime]
           m1 == [remoteManifest EXCEPT ![p] = newEntry(driveId, hash)]
       IN  /\ remote' = IF Has(existingEntry)
                        THEN [q \in Paths |-> IF remote[q].id = driveId THEN obj ELSE remote[q]]
                        ELSE [remote EXCEPT ![p] = obj]
           /\ remoteManifest' = m1
           /\ syncIndex' = [syncIndex EXCEPT ![p] =
                               [driveId |-> driveId, hash |-> hash, lastModified |-> local[p].mtime]]
           /\ \E cp \in BOOLEAN : Checkpoint(cp, m1, syncIndex')
    /\ keptRemotePaths' = keptRemotePaths \cup {p}
    /\ TaskSettles(p)
    /\ RunFrame
    /\ UNCHANGED <<isSyncing, folderIdCache, fails>>
    /\ UNCHANGED <<pc, status, filesToSync, diffTodo, filesToUpload, folderTodo, curFolder,
                   remoteFolderCache, cleanTodo, cleanPath>>
    /\ UNCHANGED <<preManifest, diffHash, creates, updates, deletes, taskFailed, delFailed, loadFailed, authExpired>>

\* driveClient.updateFile / uploadFile throws
TaskReturnFails(p) ==
    /\ task[p] = "call"
    /\ UNCHANGED <<status, remoteManifest, syncIndex>>
    /\ TaskThrows(p, FALSE)

\* oAuth2Client.getAccessToken() throws, or gives no token, inside
\* driveClient.updateFile / uploadFile: the exception reaches the catch of the task
TaskTokenFails(p) ==
    /\ task[p] = "call"
    /\ UNCHANGED <<status, remoteManifest, syncIndex>>
    /\ TaskThrows(p, TRUE)

\* a job started by next() after cancel has returned at once; its run() resumes
TaskCancelled(p) ==
    /\ task[p] = "ret"
    /\ TaskSettles(p)
    /\ RunFrame
    /\ UNCHANGED <<isSyncing, syncIndex, folderIdCache, remote, savedManifest, savedIndex, manVars, fails>>
    /\ UNCHANGED <<pc, status, remoteManifest, filesToSync, diffTodo, filesToUpload, folderTodo,
                   curFolder, remoteFolderCache, keptRemotePaths, cleanTodo, cleanPath, flushed>>
    /\ UNCHANGED <<preManifest, diffHash, creates, updates, deletes, taskFailed, delFailed, loadFailed, authExpired>>


(***************************************************************************)
(* await Promise.all(promises), cleaning, saving                           *)
(***************************************************************************)
\* every task has settled: the cleaning phase starts, or the cancelled branch
AllSettled ==
    /\ pc = "await"
    /\ NoTaskLeft
    /\ cancelRequested \/ manifestValid
    /\ IF ~cancelRequested
       THEN /\ status' = "Cleaning"
            /\ cleanTodo' = SelectInOrder(PathOrder, Keys(remoteManifest))
            /\ pc' = "clean"
       ELSE /\ status' = "Cancelled"
            /\ pc' = "saveCancel"
            /\ UNCHANGED cleanTodo
    /\ RunFrame
    /\ UNCHANGED <<isSyncing, syncIndex, folderIdCache, remote, savedManifest, savedIndex, manVars, lim, fails>>
    /\ UNCHANGED <<remoteManifest, filesToSync, diffTodo, filesToUpload, folderTodo, curFolder,
                   remoteFolderCache, keptRemotePaths, task, cleanPath, flushed>>
    /\ UNCHANGED <<preManifest, diffHash, creates, updates, deletes, taskFailed, delFailed, loadFailed, authExpired>>

\* if (!keptRemotePaths.has(remotePath)) and not excluded: the path is deleted remotely
isOrphanAlways(remotePath) == TRUE

isOrphan(remotePath) ==
    /\ remotePath \notin keptRemotePaths
    /\ ~isExcluded(remotePath, excludedFolders)

RECURSIVE fromFirstOrphan(_)
fromFirstOrphan(seq) ==
    IF seq = <<>> THEN <<>>
    ELSE IF isOrphan(Head(seq)) THEN seq ELSE fromFirstOrphan(Tail(seq))

\* the loop over Object.keys(remoteManifest.files) runs on to the next orphan, for
\* which deleteFile(entry.driveId, rootId) is awaited, or to its end
CleanNext ==
    /\ pc = "clean"
    /\ LET rest == fromFirstOrphan(cleanTodo)
       IN  IF rest = <<>>
           THEN /\ pc' = "save"
                /\ cleanTodo' = <<>>
                /\ UNCHANGED <<cleanPath, deletes>>
           ELSE /\ pc' = "cleanDel"
                /\ cleanPath' = Head(rest)
                /\ cleanTodo' = Tail(rest)
                /\ deletes' = deletes \cup
                      {[path |-> Head(rest), id |-> remoteManifest[Head(rest)].driveId]}
    /\ RunFrame
    /\ UNCHANGED <<isSyncing, syncIndex, folderIdCache, remote, savedManifest, savedIndex, manVars, lim, fails>>
    /\ UNCHANGED <<status, remoteManifest, filesToSync, diffTodo, filesToUpload, folderTodo,
                   curFolder, remoteFolderCache, keptRemotePaths, task, flushed>>
    /\ UNCHANGED <<preManifest, diffHash, creates, updates, taskFailed, delFailed, loadFailed, authExpired>>

\* deleteFile returned: the entry leaves the manifest and the index
CleanDeleted ==
    /\ pc = "cleanDel"
    /\ remote' = [q \in Paths |->
                    IF remote[q].id = remoteManifest[cleanPath].driveId THEN NoObj ELSE remote[q]]
    /\ remoteManifest' = [remoteManifest EXCEPT ![cleanPath] = NoEntry]
    /\ syncIndex' = [syncIndex EXCEPT ![cleanPath] = NoIndex]
    /\ pc' = "clean"
    /\ RunFrame
    /\ UNCHANGED <<isSyncing, folderIdCache, savedManifest, savedIndex, manVars, lim, fails>>
    /\ UNCHANGED <<status, filesToSync, diffTodo, filesToUpload, folderTodo, curFolder,
                   remoteFolderCache, keptRemotePaths, task, cleanTodo, cleanPath, flushed>>
    /\ UNCHANGED <<preManifest, diffHash, creates, updates, deletes, taskFailed, delFailed, loadFailed, authExpired>>

\* deleteFile throws with no try around it
CleanDeleteAborts == pc = "cleanDel" /\ RunFails

\* deleteFile throws (scope violation or transport): logged, the entry stays
CleanDeleteFails ==
    /\ pc = "cleanDel"
    /\ CanFail
    /\ fails' = fails + 1
    /\ delFailed' = TRUE
    /\ pc' = "clean"
    /\ RunFrame
    /\ UNCHANGED <<isSyncing, syncIndex, folderIdCache, remote, savedManifest, savedIndex, manVars, lim>>
    /\ UNCHANGED <<status, remoteManifest, filesToSync, diffTodo, filesToUpload, folderTodo,
                   curFolder, remoteFolderCache, keptRemotePaths, task, cleanTodo, cleanPath, flushed>>
    /\ UNCHANGED <<preManifest, diffHash, creates, updates, deletes, taskFailed, loadFailed, authExpired>>

\* saveManifest and onSaveSettings returned: the run ends (Ready after cleaning,
\* Cancelled in the cancelled branch)
Saved(at, st) ==
    /\ pc = at
    /\ \E staleOk \in BOOLEAN : saveManifest(remoteManifest, manifestValid, staleOk)
    /\ savedIndex' = syncIndex
    /\ EndRun(st)
    /\ RunFrame
    /\ UNCHANGED <<syncIndex, folderIdCache, remote, lim, fails>>
    /\ UNCHANGED <<remoteManifest, filesToSync, diffTodo, filesToUpload, folderTodo, curFolder,
                   remoteFolderCache, keptRemotePaths, task, cleanTodo, cleanPath, flushed>>
    /\ UNCHANGED <<preManifest, diffHash, creates, updates, deletes, taskFailed, delFailed, loadFailed, authExpired>>

FinalSave          == Saved("save", "Ready")
FinalSaveFails     == pc = "save" /\ RunFails
CancelledSave      == Saved("saveCancel", "Cancelled")
CancelledSaveFails == pc = "saveCancel" /\ RunFails

(***************************************************************************)
(* The user edits the vault after a run has ended and before the next run  *)
(* lists the files: a file is created, rewritten (new content, new mtime)  *)
(* or deleted.                                                             *)
(***************************************************************************)
FileVersions == {[hash |-> v, mtime |-> v] : v \in Versions}

LocalEdit ==
    /\ pc = "init"
    /\ runs >= 2
    /\ ~editedSince
    /\ \E p \in Paths, f \in FileVersions \cup {NoFile} :
          /\ f # local[p]
          /\ local' = [local EXCEPT ![p] = f]
    /\ editedSince' = TRUE
    /\ rejected' = FALSE /\ refused' = FALSE
    /\ UNCHANGED <<mgrVars, excludedFolders, syncImages, remote, savedManifest, savedIndex, manVars,
                   rootVars, frcVars, runVars, limVars, delVars, upVars, savVars, fldVars, nmVars, waitVars>>
    /\ UNCHANGED <<preManifest, diffHash, creates, updates, deletes, taskFailed, delFailed,
                   loadFailed, authExpired, prev, runs, fails>>

\* the steps of a run from loadManifest to its end
AfterRoot ==
    \/ ManifestLoaded
    \/ ManifestLoadFails
    \/ DiffClassify
    \/ DiffHashFails
    \/ DiffEnd
    \/ DispatchNext
    \/ FolderResolved
    \/ FolderFails
    \/ FolderListed
    \/ FolderListFails
    \/ \E p \in Paths : TaskResume(p)
    \/ \E p \in Paths : TaskHashFails(p)
    \/ \E p \in Paths : TaskReadFails(p)
    \/ \E p \in Paths : TaskReturn(p)
    \/ \E p \in Paths : TaskReturnFails(p)
    \/ \E p \in Paths : TaskTokenFails(p)
    \/ \E p \in Paths : TaskCancelled(p)
    \/ AllSettled
    \/ CleanNext
    \/ CleanDeleted
    \/ CleanDeleteFails
    \/ FinalSave
    \/ FinalSaveFails
    \/ CancelledSave
    \/ CancelledSaveFails

Next ==
    \/ SyncVaultStart
    \/ CancelSync
    \/ RootResolved
    \/ RootFails
    \/ AfterRoot
    \/ LocalEdit

\* syncVault is also called while a run is live
NextReentry ==
    \/ SyncVaultRejected
    \/ Next

(***************************************************************************)
(* forceResync(): the remote root is looked up by name in the Drive root   *)
(* and trashed, the root id, the folder memo and the local index are       *)
(* cleared, the settings are saved, then syncVault() is called.            *)
(***************************************************************************)
\* if (this.isSyncing) { Notice('Sync in progress, please wait.'); return; }
syncInProgressNever(syncing) == FALSE

syncInProgress(syncing) == syncing

ForceResyncRefused ==
    /\ syncInProgress(isSyncing)
    /\ ~refused
    /\ refused' = TRUE
    /\ rejected' = FALSE
    /\ UNCHANGED <<mgrVars, envVars, runVars, limVars, delVars, upVars, savVars, fldVars, nmVars, waitVars>>
    /\ UNCHANGED <<preManifest, diffHash, creates, updates, deletes, taskFailed, delFailed,
                   loadFailed, authExpired, prev, editedSince, runs, fails>>

\* what a step of forceResync before its call of syncVault leaves alone
ForceFrame ==
    /\ CallFrame
    /\ UNCHANGED <<runVars, lim, runs>>
    /\ UNCHANGED <<preManifest, diffHash, creates, updates, deletes, taskFailed, delFailed, loadFailed, authExpired>>

\* isSyncing = true; getFileId(rootName, 'root', folder) is awaited
ForceResyncStart ==
    /\ ~syncInProgress(isSyncing)
    /\ frpc = "idle"
    /\ runs < MaxRuns
    /\ NoTaskLeft
    /\ isSyncing' = TRUE
    /\ frpc' = "lookup"
    /\ ForceFrame
    /\ UNCHANGED <<syncIndex, folderIdCache, remote, savedManifest, savedIndex, manVars, rootVars, fails>>

\* getFileId(name, 'root', folder): name = '${escaped}' and trashed = false and
\* 'root' in parents. rootName is the whole setting, resolveRemoteRoot creates
\* one folder per segment: a folder of the Drive root carries the name only
\* when the path has one segment.
rootFoundByName == rootLive /\ Len(remoteFolderPath) = 1

\* this.rootFolderId = null; this.folderIdCache.clear(); this.settings.syncIndex = {};
\* onSaveSettings() is awaited
Clear ==
    /\ rootFolderId' = 0
    /\ folderIdCache' = {}
    /\ syncIndex' = NoIndexes
    /\ frpc' = "save"

\* getFileId returned: deleteFile(rootId, rootId) is awaited, or nothing is to delete
ForceLookedUp ==
    /\ frpc = "lookup"
    /\ IF rootFoundByName
       THEN frpc' = "delete" /\ UNCHANGED <<rootFolderId, folderIdCache, syncIndex>>
       ELSE Clear
    /\ ForceFrame
    /\ UNCHANGED <<isSyncing, remote, savedManifest, savedIndex, manVars, rootGen, rootLive, fails>>

\* deleteFile(rootId, rootId) returned: the root folder is in the trash, with the
\* files and the manifest object it holds
ForceDeleted ==
    /\ frpc = "delete"
    /\ rootLive' = FALSE
    /\ remote' = NoObjects
    /\ savedManifest' = EmptyManifest
    /\ manifestContent' = "none"
    /\ manifestId' = IF manifestId = "live" THEN "stale" ELSE manifestId
    /\ Clear
    /\ ForceFrame
    /\ UNCHANGED <<isSyncing, savedIndex, rootGen, fails>>

\* onSaveSettings() returned: this.isSyncing = false; await this.syncVault(): the
\* guards of syncVault are passed in the same step
ForceSyncs ==
    /\ frpc = "save"
    /\ frpc' = "idle"
    /\ savedIndex' = syncIndex
    /\ RunStart
    /\ UNCHANGED <<syncIndex, local, excludedFolders, syncImages, remote, savedManifest,
                   manVars, rootVars, remoteFolderPath>>

\* getFileId, deleteFile or onSaveSettings throws: catch { this.isSyncing = false }
ForceFails ==
    /\ frpc \in {"lookup", "delete", "save"}
    /\ CanFail
    /\ fails' = fails + 1
    /\ isSyncing' = FALSE
    /\ frpc' = "idle"
    /\ ForceFrame
    /\ UNCHANGED <<syncIndex, folderIdCache, remote, savedManifest, savedIndex, manVars, rootVars>>

NextForce ==
    \/ ForceResyncRefused
    \/ ForceResyncStart
    \/ ForceLookedUp
    \/ ForceDeleted
    \/ ForceSyncs
    \/ ForceFails
    \/ SyncVaultRejected
    \/ Next

(***************************************************************************)
(* waitForObsidianSync(): returns at once when Obsidian Sync is absent or  *)
(* inactive; else an interval of one second polls its status and resolves  *)
(* on a cancel request, on an inactive status, or at the maxChecks-th      *)
(* tick.  The steps of a run and of forceResync with that wait spelled     *)
(* out, and the scheduling they rest on: a call that was issued returns or *)
(* fails, a timer that was set fires, a continuation that is ready runs.   *)
(***************************************************************************)
maxChecks == 30

WaitFrame ==
    /\ UNCHANGED <<limVars, delVars, upVars, savVars, fldVars, nmVars, mgrVars, envVars, obsVars>>
    /\ UNCHANGED <<pc, remoteManifest, manifestValid, filesToSync, diffTodo, filesToUpload,
                   folderTodo, curFolder, remoteFolderCache, keptRemotePaths, task,
                   cleanTodo, cleanPath, flushed>>

\* the call: no sync plugin, no status or an inactive one: return; else the
\* status line is set and the interval started
waitForObsidianSync ==
    /\ pc = "init" /\ waitedRun # runs /\ ~polling
    /\ \E active \in BOOLEAN :
          IF active
          THEN /\ polling' = TRUE /\ checks' = 0
               /\ status' = "Waiting"
               /\ UNCHANGED waitedRun
          ELSE /\ waitedRun' = runs
               /\ UNCHANGED <<polling, checks, status>>
    /\ WaitFrame

\* the interval's callback
IntervalFires ==
    /\ polling
    /\ \E inactive \in BOOLEAN :
          IF cancelRequested \/ inactive \/ checks + 1 >= maxChecks
          THEN polling' = FALSE /\ checks' = 0 /\ waitedRun' = runs
          ELSE checks' = checks + 1 /\ UNCHANGED <<polling, waitedRun>>
    /\ UNCHANGED status
    /\ WaitFrame

\* getVaultRoot is called when waitForObsidianSync has returned
RootResolvedAfterWait == waitedRun = runs /\ RootResolved

\* syncProjects throws (before the wait) or getVaultRoot throws (after it)
RootFailsAroundWait == ~polling /\ RootFails

\* what is not up to the user: returns and failures of calls, timers, continuations
Scheduled ==
    \/ waitForObsidianSync
    \/ IntervalFires
    \/ RootResolvedAfterWait
    \/ RootFailsAroundWait
    \/ AfterRoot
    \/ ForceLookedUp
    \/ ForceDeleted
    \/ ForceSyncs
    \/ ForceFails

NextLive ==
    \/ SyncVaultStart
    \/ ForceResyncStart
    \/ CancelSync
    \/ Scheduled

\* the manifest object holds anything
NextLoad ==
    \/ ManifestThrows
    \/ Next



(***************************************************************************)
(* A limiter on its own: jobs are enqueued, and running jobs resolve or    *)
(* reject.                                                                 *)
(***************************************************************************)
JobIds == 1..MaxJobs

LimEnqueue(j) ==
    /\ job[j] = "new"
    /\ lim' = enqueue(lim, j)
    /\ job' = [job EXCEPT ![j] = IF j \in lim'.running THEN "running" ELSE "queued"]
    /\ UNCHANGED <<startedBy, delVars, upVars, savVars, fldVars, nmVars, waitVars, syncVars>>

LimSettle(j, how) ==
    /\ job[j] = "running"
    /\ lim' = settle(lim, j)
    /\ job' = [k \in JobIds |->
                 IF k = j THEN how
                 ELSE IF k \in startedByNext(lim) THEN "running"
                 ELSE job[k]]
    /\ startedBy' = [k \in JobIds |-> IF k \in startedByNext(lim) THEN j ELSE startedBy[k]]
    /\ UNCHANGED <<delVars, upVars, savVars, fldVars, nmVars, waitVars, syncVars>>

LimResolve(j) == LimSettle(j, "resolved")
LimReject(j)  == LimSettle(j, "rejected")

NextLimit ==
    \/ \E j \in JobIds : LimEnqueue(j)
    \/ \E j \in JobIds : LimResolve(j)
    \/ \E j \in JobIds : LimReject(j)

(***************************************************************************)
(* Initial states                                                          *)
(***************************************************************************)
V(h)          == [hash |-> h, mtime |-> h]
En(id, h)     == [driveId |-> id, hash |-> h]
Ix(id, h, t)  == [driveId |-> id, hash |-> h, lastModified |-> t]
Ob(id, c, t)  == [id |-> id, md5 |-> c, modifiedTime |-> t]
NoFiles       == [p \in Paths |-> NoFile]

\* manifest {A: h1/id1, D: h1/id4}, local tree {A (h1), B, C}, nothing named B or C remotely
OrphanSeed(ix) ==
    [local |-> ("A" :> V(1)) @@ ("B" :> V(1)) @@ ("C" :> V(2)) @@ NoFiles,
     manifest |-> ("A" :> En(1, 1)) @@ ("D" :> En(4, 1)) @@ EmptyManifest,
     remote |-> ("A" :> Ob(1, 0, 3)) @@ ("D" :> Ob(4, 0, 3)) @@ NoObjects,
     index |-> ix,
     excluded |-> {}, images |-> TRUE]

OrphanSeeds ==
    {OrphanSeed(NoIndexes),
     OrphanSeed(("A" :> Ix(1, 1, 1)) @@ ("D" :> Ix(4, 1, 1)) @@ NoIndexes)}

Seeds ==
    OrphanSeeds \cup
    {\* a rewritten file, an orphan, and a file synced before its folder was excluded
     [local |-> ("A" :> V(2)) @@ ("E" :> V(1)) @@ NoFiles,
      manifest |-> ("A" :> En(1, 1)) @@ ("D" :> En(4, 1)) @@ ("E" :> En(5, 1)) @@ EmptyManifest,
      remote |-> ("A" :> Ob(1, 0, 3)) @@ ("D" :> Ob(4, 0, 3)) @@ ("E" :> Ob(5, 0, 3)) @@ NoObjects,
      index |-> ("A" :> Ix(1, 1, 1)) @@ ("E" :> Ix(5, 1, 1)) @@ NoIndexes,
      excluded |-> {"ex"}, images |-> TRUE],
     \* the manifest is lost, the remote tree is populated: newer document, equal
     \* binary, older document
     [local |-> ("A" :> V(1)) @@ ("B" :> V(1)) @@ ("C" :> V(1)) @@ NoFiles,
      manifest |-> EmptyManifest,
      remote |-> ("A" :> Ob(1, 0, 3)) @@ ("B" :> Ob(2, 1, 3)) @@ ("C" :> Ob(3, 0, 0)) @@ NoObjects,
      index |-> NoIndexes,
      excluded |-> {}, images |-> TRUE],
     \* images are not synced any more; the index entry of A is stale (same mtime,
     \* other hash) and the remote document A is older than the local file
     [local |-> ("A" :> V(1)) @@ ("B" :> V(1)) @@ ("D" :> V(1)) @@ NoFiles,
      manifest |-> ("A" :> En(1, 2)) @@ ("B" :> En(2, 1)) @@ EmptyManifest,
      remote |-> ("A" :> Ob(1, 0, 0)) @@ ("B" :> Ob(2, 1, 3)) @@ NoObjects,
      index |-> ("A" :> Ix(1, 2, 1)) @@ NoIndexes,
      excluded |-> {}, images |-> FALSE]}

(***************************************************************************)
(* ManifestManager.saveManifest, called by the incremental save of the     *)
(* transfer tasks and by the final save of syncVault.                      *)
(*                                                                         *)
(* The transfer phase is a count of items: `completed` items have completed, so *)
(* the manifest and the index in memory hold `completed` new entries; content   *)
(* written to Drive or to the settings file is the count it was taken at.  *)
(* Caller 0 is the body of syncVault (the final save), callers 1..2 are    *)
(* the tasks the limiter runs at the same time. The clock is read only in  *)
(* `now - lastSaveTime > 30000`: it advances by ticks just over that.      *)
(***************************************************************************)
Callers  == 0..TransferLimit
Tasks    == 1..TransferLimit
ObjIds   == 1..(TransferLimit + 1)      \* the manifest objects there may be: one
                                        \* from before, one created by each task
Absent   == 0 - 1                       \* no object of that id under the root
TickMs   == CheckpointInterval + 1
\* items that completed before the behaviour begins, within the interval and
\* short of the count: none of them was flushed
Skipped  == CheckpointCount - 2

Resting(p) == [pc |-> p, content |-> 0, target |-> 0]

\* if (filesSinceLastSave >= 50 || (now - lastSaveTime > 30000))
checkpointDue(n, t, last) == n >= CheckpointCount \/ t - last > CheckpointInterval

\* getFileId(MANIFEST_FILE_NAME, rootFolderId): the ids a lookup may return
Found == {i \in ObjIds : objects[i] # Absent}

\* if (existingId) updateFile(existingId) else uploadFile(...)
upsert(existingId) == IF existingId # 0 THEN "updateFound" ELSE "create"

\* saveManifest is entered: content = JSON.stringify(manifest); with a cached id
\* updateFile(this.manifestId) is awaited, else getFileId
saveManifestEnter(content) ==
    IF thisManifestId # 0
    THEN [pc |-> "updateCached", content |-> content, target |-> thisManifestId]
    ELSE [pc |-> "lookup", content |-> content, target |-> 0]

SaveFrame == UNCHANGED <<limVars, delVars, upVars, fldVars, nmVars, waitVars, syncVars>>

\* Date.now() moves on
Tick ==
    /\ now < MaxTicks * TickMs
    /\ sv[0].pc = "await"
    /\ now' = now + TickMs
    /\ UNCHANGED <<lastSaveTime, filesSinceLastSave, completed, sv, objects, thisManifestId,
                   created, indexDone, saveFails>>
    /\ SaveFrame

\* the limiter starts the task of the next file
ItemStart(t) ==
    /\ sv[0].pc = "await"
    /\ sv[t].pc = "idle"
    /\ completed + Cardinality({u \in Tasks : sv[u].pc = "item"}) < Skipped + MaxItems
    /\ sv' = [sv EXCEPT ![t] = Resting("item")]
    /\ UNCHANGED <<now, lastSaveTime, filesSinceLastSave, completed, objects, thisManifestId,
                   created, indexDone, saveFails>>
    /\ SaveFrame

\* uploadFile returned, keptRemotePaths.add: Incremental Save Check
ItemCompletes(t) ==
    /\ sv[t].pc = "item"
    /\ completed' = completed + 1
    /\ IF checkpointDue(filesSinceLastSave + 1, now, lastSaveTime)
       THEN /\ filesSinceLastSave' = 0
            /\ lastSaveTime' = now
            /\ sv' = [sv EXCEPT ![t] = saveManifestEnter(completed')]
       ELSE /\ filesSinceLastSave' = filesSinceLastSave + 1
            /\ sv' = [sv EXCEPT ![t] = Resting("idle")]
            /\ UNCHANGED lastSaveTime
    /\ UNCHANGED <<now, objects, thisManifestId, created, indexDone, saveFails>>
    /\ SaveFrame

\* the transfer of the item throws: catch of the task
ItemThrows(t) ==
    /\ sv[t].pc = "item"
    /\ saveFails < MaxFails
    /\ saveFails' = saveFails + 1
    /\ sv' = [sv EXCEPT ![t] = Resting("idle")]
    /\ UNCHANGED <<now, lastSaveTime, filesSinceLastSave, completed, objects, thisManifestId,
                   created, indexDone>>
    /\ SaveFrame

\* await Promise.all(promises) returned: cleaning, then the final save
FinalSaveEnter ==
    /\ sv[0].pc = "await"
    /\ \A t \in Tasks : sv[t].pc = "idle"
    /\ sv' = [sv EXCEPT ![0] = saveManifestEnter(completed)]
    /\ UNCHANGED <<now, lastSaveTime, filesSinceLastSave, completed, objects, thisManifestId,
                   created, indexDone, saveFails>>
    /\ SaveFrame

\* saveManifest returned to caller c: onSaveSettings() is awaited
saveManifestReturns(c) == [pc |-> "settings", content |-> completed, target |-> 0]

\* saveManifest throws: into the catch of the task, or into the global catch
saveManifestThrows(c) == IF c = 0 THEN Resting("failed") ELSE Resting("idle")

\* updateFile(this.manifestId, content) returned
UpdateCachedOk(c) ==
    /\ sv[c].pc = "updateCached"
    /\ objects[sv[c].target] # Absent
    /\ objects' = [objects EXCEPT ![sv[c].target] = sv[c].content]
    /\ sv' = [sv EXCEPT ![c] = saveManifestReturns(c)]
    /\ UNCHANGED <<now, lastSaveTime, filesSinceLastSave, completed, thisManifestId,
                   created, indexDone, saveFails>>
    /\ SaveFrame

\* updateFile(this.manifestId, content) throws (the object is gone, or the call
\* fails): this.manifestId = null, then getFileId is awaited
UpdateCachedFails(c) ==
    /\ sv[c].pc = "updateCached"
    /\ IF objects[sv[c].target] = Absent
       THEN UNCHANGED saveFails
       ELSE saveFails < MaxFails /\ saveFails' = saveFails + 1
    /\ thisManifestId' = 0
    /\ sv' = [sv EXCEPT ![c] = [pc |-> "lookup", content |-> sv[c].content, target |-> 0]]
    /\ UNCHANGED <<now, lastSaveTime, filesSinceLastSave, completed, objects, created, indexDone>>
    /\ SaveFrame

\* getFileId returned existingId (0: null); this.manifestId = existingId and
\* updateFile(existingId) is awaited, or uploadFile is awaited
LookedUp(c) ==
    /\ sv[c].pc = "lookup"
    /\ \E existingId \in (IF Found = {} THEN {0} ELSE Found) :
          /\ thisManifestId' = IF existingId # 0 THEN existingId ELSE thisManifestId
          /\ sv' = [sv EXCEPT ![c] = [pc |-> upsert(existingId), content |-> sv[c].content,
                                      target |-> existingId]]
    /\ UNCHANGED <<now, lastSaveTime, filesSinceLastSave, completed, objects, created, indexDone, saveFails>>
    /\ SaveFrame

\* updateFile(existingId, content) returned
UpdateFoundOk(c) ==
    /\ sv[c].pc = "updateFound"
    /\ objects' = [objects EXCEPT ![sv[c].target] = sv[c].content]
    /\ sv' = [sv EXCEPT ![c] = saveManifestReturns(c)]
    /\ UNCHANGED <<now, lastSaveTime, filesSinceLastSave, completed, thisManifestId,
                   created, indexDone, saveFails>>
    /\ SaveFrame

\* uploadFile(MANIFEST_FILE_NAME, content, ..., rootFolderId) returned the id of
\* the object it created: this.manifestId = id
CreateOk(c) ==
    /\ sv[c].pc = "create"
    /\ LET id == created + 2
       IN  /\ objects' = [objects EXCEPT ![id] = sv[c].content]
           /\ thisManifestId' = id
    /\ created' = created + 1
    /\ sv' = [sv EXCEPT ![c] = saveManifestReturns(c)]
    /\ UNCHANGED <<now, lastSaveTime, filesSinceLastSave, completed, indexDone, saveFails>>
    /\ SaveFrame

\* getFileId, updateFile(existingId) or uploadFile throws: saveManifest rethrows
SaveThrows(c) ==
    /\ sv[c].pc \in {"lookup", "updateFound", "create"}
    /\ saveFails < MaxFails
    /\ saveFails' = saveFails + 1
    /\ sv' = [sv EXCEPT ![c] = saveManifestThrows(c)]
    /\ UNCHANGED <<now, lastSaveTime, filesSinceLastSave, completed, objects, thisManifestId,
                   created, indexDone>>
    /\ SaveFrame

\* onSaveSettings() returned: the index is on disk as it was handed over
SettingsSaved(c) ==
    /\ sv[c].pc = "settings"
    /\ indexDone' = sv[c].content
    /\ sv' = [sv EXCEPT ![c] = IF c = 0 THEN Resting("ready") ELSE Resting("idle")]
    /\ UNCHANGED <<now, lastSaveTime, filesSinceLastSave, completed, objects, thisManifestId,
                   created, saveFails>>
    /\ SaveFrame

NextSave ==
    \/ Tick
    \/ \E t \in Tasks : ItemStart(t)
    \/ \E t \in Tasks : ItemCompletes(t)
    \/ \E t \in Tasks : ItemThrows(t)
    \/ FinalSaveEnter
    \/ \E c \in Callers : UpdateCachedOk(c)
    \/ \E c \in Callers : UpdateCachedFails(c)
    \/ \E c \in Callers : LookedUp(c)
    \/ \E c \in Callers : UpdateFoundOk(c)
    \/ \E c \in Callers : CreateOk(c)
    \/ \E c \in Callers : SaveThrows(c)
    \/ \E c \in Callers : SettingsSaved(c)

(***************************************************************************)
(* SyncManager.ensureFolderStructure within one run: the dispatch loop of  *)
(* syncVault (resolver 0) resolves the folder of each group of files       *)
(* before it hands the files of that group to the limiter; every task      *)
(* (resolvers 1..2) resolves the folder of its file again inside           *)
(* uploadFile, while the loop may be resolving the next folder.            *)
(*                                                                         *)
(* A folder path is the sequence of its parts, <<>> being the vault root;  *)
(* folderIdCache is the set of the paths it has an id for.                 *)
(***************************************************************************)
FolderPaths == {<<>>, <<"a">>, <<"a", "b">>, <<"b">>}
Resolvers   == 0..TransferLimit
PathPrefix(path, i) == SubSeq(path, 1, i)
PrefixClosed(S) == \A p \in S : \A i \in 1..Len(p) : PathPrefix(p, i) \in S

AtRest == [pc |-> "idle", path |-> <<>>, i |-> 0]

\* this.folderIdCache.has(path)
memoHasNever(path) == FALSE

memoHas(path) == path \in folderIdCache

\* for (const part of parts): the parts whose path is in the memo are passed
\* (continue); the index of the first part that is not, Len(path) + 1 if none
RECURSIVE firstMiss(_, _)
firstMiss(path, i) ==
    IF i > Len(path) THEN i
    ELSE IF memoHas(PathPrefix(path, i)) THEN firstMiss(path, i + 1)
    ELSE i

FolderFrame == UNCHANGED <<limVars, delVars, upVars, savVars, nmVars, waitVars, isSyncing, cancelRequested,
                           syncIndex, envVars, runVars, obsVars>>

\* the call returns parentId: the loop goes on to the files of the folder (its
\* tasks may start), a task goes on to its upload
EnsureReturns(c) ==
    /\ ens' = [ens EXCEPT ![c] = AtRest]
    /\ IF c = 0
       THEN folderQueue' = Tail(folderQueue) /\ resolved' = resolved \cup {ens[c].path}
       ELSE UNCHANGED <<folderQueue, resolved>>

\* the loop stands at part i, or is over
EnsureGoesOn(c, i) ==
    IF i > Len(ens[c].path)
    THEN EnsureReturns(c)
    ELSE /\ ens' = [ens EXCEPT ![c] = [pc |-> "lookup", path |-> ens[c].path, i |-> i]]
         /\ UNCHANGED <<folderQueue, resolved>>

\* for (const [folderPath, folderFiles] of filesByFolder):
\* await this.ensureFolderStructure(folderPath) is entered, getVaultRoot awaited
DispatchEnsures ==
    /\ ens[0].pc = "idle"
    /\ folderQueue # <<>>
    /\ ens' = [ens EXCEPT ![0] = [pc |-> "root", path |-> Head(folderQueue), i |-> 0]]
    /\ UNCHANGED <<folderIdCache, folderQueue, resolved, folders, lookedUp, made, ensured, ensFails>>
    /\ FolderFrame

\* uploadFile of a file of an already dispatched folder:
\* await this.ensureFolderStructure(file.parent?.path || '') is entered
TaskEnsures(t) ==
    /\ ens[t].pc = "idle"
    /\ ensured < MaxEnsures
    /\ \E path \in resolved :
          ens' = [ens EXCEPT ![t] = [pc |-> "root", path |-> path, i |-> 0]]
    /\ ensured' = ensured + 1
    /\ UNCHANGED <<folderIdCache, folderQueue, resolved, folders, lookedUp, made, ensFails>>
    /\ FolderFrame

\* getVaultRoot returned the cached root id: the root path and a path in the
\* memo return at once, else the loop over the parts begins
EnsureRooted(c) ==
    /\ ens[c].pc = "root"
    /\ IF ens[c].path = <<>> \/ memoHas(ens[c].path)
       THEN EnsureReturns(c)
       ELSE EnsureGoesOn(c, firstMiss(ens[c].path, 1))
    /\ UNCHANGED <<folderIdCache, folders, lookedUp, made, ensured, ensFails>>
    /\ FolderFrame

\* getFileId(part, parentId, folder) returned; an id: folderIdCache.set and the
\* next part; null: createFolder is awaited
EnsureLookedUp(c) ==
    /\ ens[c].pc = "lookup"
    /\ LET at == PathPrefix(ens[c].path, ens[c].i)
       IN  /\ lookedUp' = [lookedUp EXCEPT ![at] = @ + 1]
           /\ IF at \in folders
              THEN /\ folderIdCache' = folderIdCache \cup {at}
                   /\ EnsureGoesOn(c, firstMiss(ens[c].path, ens[c].i + 1))
              ELSE /\ ens' = [ens EXCEPT ![c].pc = "create"]
                   /\ UNCHANGED <<folderIdCache, folderQueue, resolved>>
    /\ UNCHANGED <<folders, made, ensured, ensFails>>
    /\ FolderFrame

\* createFolder(part, parentId) returned: folderIdCache.set and the next part
EnsureCreated(c) ==
    /\ ens[c].pc = "create"
    /\ LET at == PathPrefix(ens[c].path, ens[c].i)
       IN  /\ made' = [made EXCEPT ![at] = @ + 1]
           /\ folders' = folders \cup {at}
           /\ folderIdCache' = folderIdCache \cup {at}
    /\ EnsureGoesOn(c, firstMiss(ens[c].path, ens[c].i + 1))
    /\ UNCHANGED <<lookedUp, ensured, ensFails>>
    /\ FolderFrame

\* getFileId or createFolder throws: the dispatch loop leaves through the
\* global catch (no further folder), a task through its own catch
EnsureThrows(c) ==
    /\ ens[c].pc \in {"lookup", "create"}
    /\ ensFails < MaxFails
    /\ ensFails' = ensFails + 1
    /\ IF ens[c].pc = "lookup"
       THEN lookedUp' = [lookedUp EXCEPT ![PathPrefix(ens[c].path, ens[c].i)] = @ + 1]
       ELSE UNCHANGED lookedUp
    /\ ens' = [ens EXCEPT ![c] = AtRest]
    /\ folderQueue' = IF c = 0 THEN <<>> ELSE folderQueue
    /\ UNCHANGED <<folderIdCache, resolved, folders, made, ensured>>
    /\ FolderFrame

NextFolders ==
    \/ DispatchEnsures
    \/ \E t \in Tasks : TaskEnsures(t)
    \/ \E c \in Resolvers : EnsureRooted(c)
    \/ \E c \in Resolvers : EnsureLookedUp(c)
    \/ \E c \in Resolvers : EnsureCreated(c)
    \/ \E c \in Resolvers : EnsureThrows(c)

(***************************************************************************)
(* Smart recovery by name: the files of one vault folder against the       *)
(* listing of its remote folder (syncManager.ts 254, 282-337, 410-453;     *)
(* driveClient.ts listFilesInFolder).  A file name is the pair of its base *)
(* name and its extension; a document or canvas is searched and created    *)
(* under its base name alone.                                              *)
(***************************************************************************)
NoteMd      == [basename |-> "Note", extension |-> "md"]
NoteCanvas  == [basename |-> "Note", extension |-> "canvas"]
NotePng     == [basename |-> "Note", extension |-> "png"]
FolderFiles == {NoteMd, NoteCanvas, NotePng}

isDocFile(file) == file.extension = "md" \/ file.extension = "canvas"
\* isDocType ? file.basename : file.name
searchName(file) ==
    IF isDocFile(file) THEN <<file.basename>> ELSE <<file.basename, file.extension>>
RemoteNames == {searchName(file) : file \in FolderFiles}

\* id given by Drive to the next object created
newDriveId == 1 + Cardinality(nmRemote)

\* listFilesInFolder: a Map keyed by name; fileMap.set keeps, of the objects of
\* one name, the one that was listed last (any of them)
listFilesInFolder(objs) ==
    {m \in [RemoteNames -> {0} \cup {o.id : o \in objs}] :
        \A n \in RemoteNames :
            IF \E o \in objs : o.name = n
            THEN \E o \in objs : o.name = n /\ o.id = m[n]
            ELSE m[n] = 0}

NamesFrame == UNCHANGED <<limVars, delVars, upVars, savVars, fldVars, waitVars, syncVars>>

\* line 254: the folder is listed (a failing page leaves a partial or empty
\* map, no exception); lines 256-259: its files are handed to the limiter
NamesListed ==
    /\ \A file \in FolderFiles : nmTask[file] = "none"
    /\ \E got \in SUBSET nmRemote : nmCache' \in listFilesInFolder(got)
    /\ nmTask' = [file \in FolderFiles |-> "queued"]
    /\ UNCHANGED <<nmRemote, nmManifest, nmIndex>>
    /\ NamesFrame

\* lines 280-322: the entry of the file after smart recovery
nameRecovered(file, isUpToDate) ==
    LET existingId == nmCache[searchName(file)]
    IN  IF Has(nmManifest[file]) \/ existingId = 0
        THEN [entry |-> nmManifest[file], index |-> nmIndex[file]]
        ELSE IF isUpToDate
             THEN [entry |-> En(existingId, 1), index |-> Ix(existingId, 1, 1)]
             ELSE [entry |-> En(existingId, Mismatch), index |-> nmIndex[file]]

\* lines 280-337 of a task: smart recovery, then the decision to upload
NameDecides(file) ==
    /\ nmTask[file] = "queued"
    /\ \E isUpToDate \in BOOLEAN :
          LET r == nameRecovered(file, isUpToDate)
          IN  /\ nmManifest' = [nmManifest EXCEPT ![file] = r.entry]
              /\ nmIndex' = [nmIndex EXCEPT ![file] = r.index]
              /\ nmTask' = [nmTask EXCEPT ![file] =
                     IF ~Has(r.entry) \/ r.entry.hash # 1 THEN "upload" ELSE "done"]
    /\ UNCHANGED <<nmRemote, nmCache>>
    /\ NamesFrame

\* uploadFile 421-453: update of the entry's object, or creation under searchName
NameUploaded(file) ==
    /\ nmTask[file] = "upload"
    /\ LET existingEntry == nmManifest[file]
           driveId == IF Has(existingEntry) THEN existingEntry.driveId ELSE newDriveId
       IN  /\ nmRemote' = IF Has(existingEntry) THEN nmRemote
                          ELSE nmRemote \cup {[id |-> driveId, name |-> searchName(file)]}
           /\ nmManifest' = [nmManifest EXCEPT ![file] = En(driveId, 1)]
           /\ nmIndex' = [nmIndex EXCEPT ![file] = Ix(driveId, 1, 1)]
    /\ nmTask' = [nmTask EXCEPT ![file] = "done"]
    /\ UNCHANGED nmCache
    /\ NamesFrame

\* uploadFile throws: the task's catch (351-354) logs and goes on
NameUploadThrows(file) ==
    /\ nmTask[file] = "upload"
    /\ nmTask' = [nmTask EXCEPT ![file] = "failed"]
    /\ UNCHANGED <<nmRemote, nmCache, nmManifest, nmIndex>>
    /\ NamesFrame

NextNames ==
    \/ NamesListed
    \/ \E file \in FolderFiles : NameDecides(file)
    \/ \E file \in FolderFiles : NameUploaded(file)
    \/ \E file \in FolderFiles : NameUploadThrows(file)

WaitIdle == polling = FALSE /\ checks = 0 /\ waitedRun = 0

NmIdle ==
    /\ nmRemote = {} /\ nmCache = [n \in RemoteNames |-> 0]
    /\ nmManifest = [file \in FolderFiles |-> NoEntry]
    /\ nmIndex = [file \in FolderFiles |-> NoIndex]
    /\ nmTask = [file \in FolderFiles |-> "none"]

FldIdle ==
    /\ ens = [c \in Resolvers |-> AtRest]
    /\ folderQueue = <<>> /\ resolved = {} /\ folders = {}
    /\ lookedUp = [p \in FolderPaths |-> 0] /\ made = [p \in FolderPaths |-> 0]
    /\ ensured = 0 /\ ensFails = 0

SavIdle ==
    /\ now = 0 /\ lastSaveTime = 0 /\ filesSinceLastSave = 0 /\ completed = 0
    /\ sv = [c \in Callers |-> Resting("idle")]
    /\ objects = [i \in ObjIds |-> Absent]
    /\ thisManifestId = 0 /\ created = 0 /\ indexDone = 0 /\ saveFails = 0

LimIdle ==
    /\ lim = pLimit(TransferLimit)
    /\ job = [j \in JobIds |-> "new"]
    /\ startedBy = [j \in JobIds |-> 0]

UpIdle ==
    /\ upc = "idle" /\ upKind = "none" /\ size = 0 /\ attempt = 0
    /\ calls = <<>> /\ session = 0
    /\ fpc = "none" /\ fi = 0 /\ backoff = BaseBackoff /\ slept = <<>> /\ sent = 0
    /\ res = NoResponse

DelIdle ==
    /\ parents = [i \in DIds |-> <<>>]
    /\ dpc = "idle" /\ dFileId = 0 /\ dScopeId = NoScope /\ currentId = 0
    /\ depth = 0 /\ lookups = 0 /\ requests = {} /\ isSafe = "none" /\ dResult = "none"

\* spent: failing calls already counted against MaxFails (below zero: the
\* behaviour may see that many failing calls more)
SyncFromWith(seed, path, content, spent) ==
    /\ isSyncing = FALSE /\ cancelRequested = FALSE
    /\ syncIndex = seed.index
    /\ folderIdCache = {}
    /\ local = seed.local
    /\ excludedFolders = seed.excluded
    /\ syncImages = seed.images
    /\ remote = seed.remote
    /\ savedManifest = seed.manifest
    /\ savedIndex = seed.index
    /\ rootFolderId = 0 /\ rootGen = 1 /\ rootLive = TRUE
    /\ manifestId = "null"
    /\ manifestContent = content
    /\ frpc = "idle" /\ remoteFolderPath = path
    /\ manifestValid = TRUE
    /\ pc = "idle" /\ status = "none"
    /\ remoteManifest = EmptyManifest
    /\ filesToSync = <<>> /\ diffTodo = <<>> /\ filesToUpload = <<>>
    /\ folderTodo = <<>> /\ curFolder = "/"
    /\ remoteFolderCache = NoObjects
    /\ keptRemotePaths = {}
    /\ task = [p \in Paths |-> "none"]
    /\ cleanTodo = <<>> /\ cleanPath = "A" /\ flushed = FALSE
    /\ preManifest = EmptyManifest /\ diffHash = Zero
    /\ creates = Zero /\ updates = Zero /\ deletes = {}
    /\ rejected = FALSE /\ refused = FALSE
    /\ taskFailed = FALSE /\ delFailed = FALSE /\ loadFailed = FALSE /\ authExpired = FALSE
    /\ prev = [status |-> "none", taskFailed |-> FALSE] /\ editedSince = FALSE
    /\ runs = 0 /\ fails = spent

SyncFromAt(seed, path, content) == SyncFromWith(seed, path, content, 0)

\* the remote folder is a folder of the Drive root, named after the vault
SyncFrom(seed) ==
    SyncFromAt(seed, <<"Vault">>, IF seed.manifest = EmptyManifest THEN "none" ELSE "manifest")

Init       == LimIdle /\ DelIdle /\ UpIdle /\ SavIdle /\ FldIdle /\ NmIdle /\ WaitIdle /\ \E seed \in Seeds : SyncFrom(seed)
InitOrphan == LimIdle /\ DelIdle /\ UpIdle /\ SavIdle /\ FldIdle /\ NmIdle /\ WaitIdle /\ \E seed \in OrphanSeeds : SyncFrom(seed)

InitLimit ==
    /\ \E n \in 1..MaxLimit : lim = pLimit(n)
    /\ job = [j \in JobIds |-> "new"]
    /\ startedBy = [j \in JobIds |-> 0]
    /\ DelIdle /\ UpIdle /\ SavIdle /\ FldIdle /\ NmIdle /\ WaitIdle
    /\ SyncFrom(OrphanSeed(NoIndexes))

InitDelete ==
    /\ LimIdle
    /\ parents \in [DIds -> ParentLists]
    /\ dpc = "idle" /\ dFileId = 0 /\ dScopeId = NoScope /\ currentId = 0
    /\ depth = 0 /\ lookups = 0 /\ requests = {} /\ isSafe = "none" /\ dResult = "none"
    /\ UpIdle /\ SavIdle /\ FldIdle /\ NmIdle /\ WaitIdle
    /\ SyncFrom(OrphanSeed(NoIndexes))

\* forceResync: the remote folder is a folder of the Drive root, or lies deeper
RootPaths == {<<"Vault">>, <<"Backups", "Vault">>}

\* manifest {A: h1/id1, D: h1/id4}, local tree {A (h1), B}; the index is empty or
\* holds what the manifest holds
ForceSeed(ix) ==
    [local |-> ("A" :> V(1)) @@ ("B" :> V(1)) @@ NoFiles,
     manifest |-> ("A" :> En(1, 1)) @@ ("D" :> En(4, 1)) @@ EmptyManifest,
     remote |-> ("A" :> Ob(1, 0, 3)) @@ ("D" :> Ob(4, 0, 3)) @@ NoObjects,
     index |-> ix,
     excluded |-> {}, images |-> TRUE]

ForceSeeds ==
    {ForceSeed(NoIndexes),
     ForceSeed(("A" :> Ix(1, 1, 1)) @@ ("D" :> Ix(4, 1, 1)) @@ NoIndexes)}

InitForce ==
    /\ LimIdle /\ DelIdle /\ UpIdle /\ SavIdle /\ FldIdle /\ NmIdle /\ WaitIdle
    /\ \E seed \in ForceSeeds, path \in RootPaths : SyncFromAt(seed, path, "manifest")

\* loadManifest: the manifest object is absent, or holds a manifest, text that is
\* not JSON (or nothing), or JSON that is not a manifest
InitLoad ==
    /\ LimIdle /\ DelIdle /\ UpIdle /\ SavIdle /\ FldIdle /\ NmIdle /\ WaitIdle
    /\ \E kind \in {"none", "manifest", "notJson", "notManifest"} :
          SyncFromAt([OrphanSeed(NoIndexes) EXCEPT
                         !.manifest = IF kind = "manifest" THEN @ ELSE EmptyManifest],
                     <<"Vault">>, kind)

\* the manifest object is lost (deleted remotely) while the local index is kept;
\* the remote tree is populated: newer document A, equal binary B, older document C.
\* Two calls may fail.
LostSeed ==
    [local |-> ("A" :> V(1)) @@ ("B" :> V(1)) @@ ("C" :> V(1)) @@ NoFiles,
     manifest |-> EmptyManifest,
     remote |-> ("A" :> Ob(1, 0, 3)) @@ ("B" :> Ob(2, 1, 3)) @@ ("C" :> Ob(3, 0, 0)) @@ NoObjects,
     index |-> ("A" :> Ix(1, 1, 1)) @@ ("C" :> Ix(3, 1, 1)) @@ NoIndexes,
     excluded |-> {}, images |-> TRUE]

InitLost ==
    /\ LimIdle /\ DelIdle /\ UpIdle /\ SavIdle /\ FldIdle /\ NmIdle /\ WaitIdle
    /\ SyncFromWith(LostSeed, <<"Vault">>, "none", 0 - 1)

\* the transfer phase after Skipped items (let lastSaveTime = Date.now(); let
\* filesSinceLastSave = 0; filesSinceLastSave++ per item): no manifest yet, one found by loadManifest, one loadManifest could not
\* look up, or one that was removed remotely after it was loaded
InitSave ==
    /\ LimIdle /\ DelIdle /\ UpIdle /\ FldIdle /\ NmIdle /\ WaitIdle /\ SyncFrom(OrphanSeed(NoIndexes))
    /\ now = 0 /\ lastSaveTime = 0 /\ filesSinceLastSave = Skipped /\ completed = Skipped
    /\ sv = [c \in Callers |-> IF c = 0 THEN Resting("await") ELSE Resting("idle")]
    /\ \E had \in BOOLEAN, id \in {0, 1} :
          /\ objects = [i \in ObjIds |-> IF had /\ i = 1 THEN 0 ELSE Absent]
          /\ thisManifestId = id
    /\ created = 0 /\ indexDone = 0 /\ saveFails = 0

\* a run after this.folderIdCache.clear() and getVaultRoot: the folders of the
\* files to upload in the order of filesByFolder, and what exists remotely
\* what earlier runs left: nothing; the document of Note.md, recorded in the
\* manifest (Note.canvas was added to the vault since) or not (manifest lost)
InitNames ==
    /\ LimIdle /\ DelIdle /\ UpIdle /\ SavIdle /\ FldIdle /\ WaitIdle /\ SyncFrom(OrphanSeed(NoIndexes))
    /\ nmCache = [n \in RemoteNames |-> 0]
    /\ nmTask = [file \in FolderFiles |-> "none"]
    /\ \E had, known \in BOOLEAN :
          /\ nmRemote = IF had THEN {[id |-> 1, name |-> searchName(NoteMd)]} ELSE {}
          /\ nmManifest = [file \in FolderFiles |->
                 IF had /\ known /\ file = NoteMd THEN En(1, 1) ELSE NoEntry]
          /\ nmIndex = [file \in FolderFiles |->
                 IF had /\ known /\ file = NoteMd THEN Ix(1, 1, 1) ELSE NoIndex]

InitFolders ==
    /\ LimIdle /\ DelIdle /\ UpIdle /\ SavIdle /\ NmIdle /\ WaitIdle /\ SyncFrom(OrphanSeed(NoIndexes))
    /\ ens = [c \in Resolvers |-> AtRest]
    /\ \E q \in UNION {[1..n -> FolderPaths] : n \in 1..3} :
          /\ \A i, j \in DOMAIN q : i # j => q[i] # q[j]
          /\ folderQueue = q
    /\ resolved = {}
    /\ \E S \in SUBSET (FolderPaths \ {<<>>}) : PrefixClosed(S) /\ folders = S
    /\ lookedUp = [p \in FolderPaths |-> 0] /\ made = [p \in FolderPaths |-> 0]
    /\ ensured = 0 /\ ensFails = 0

InitUpload == LimIdle /\ DelIdle /\ UpIdle /\ SavIdle /\ FldIdle /\ NmIdle /\ WaitIdle /\ SyncFrom(OrphanSeed(NoIndexes))

Spec       == Init /\ [][Next]_vars
SpecOrphan == InitOrphan /\ [][Next]_vars
SpecReentry == InitOrphan /\ [][NextReentry]_vars
SpecLimit  == InitLimit /\ [][NextLimit]_vars
\* every running job settles: fn() resolves or rejects
SpecLimitFair ==
    InitLimit /\ [][NextLimit]_vars /\ \A j \in JobIds : WF_vars(LimResolve(j) \/ LimReject(j))
SpecForce  == InitForce /\ [][NextForce]_vars
SpecLoad   == InitLoad /\ [][NextLoad]_vars
SpecLost   == InitLost /\ [][Next]_vars
SpecUpload == InitUpload /\ [][NextUpload]_vars
SpecSave   == InitSave /\ [][NextSave]_vars
InitLive ==
    /\ LimIdle /\ DelIdle /\ UpIdle /\ SavIdle /\ FldIdle /\ NmIdle /\ WaitIdle
    /\ SyncFromAt(OrphanSeed(NoIndexes), <<"Vault">>, "manifest")

SpecLive  == InitLive /\ [][NextLive]_vars /\ WF_vars(Scheduled)
SpecNames == InitNames /\ [][NextNames]_vars
SpecFolders == InitFolders /\ [][NextFolders]_vars
SpecDelete == InitDelete /\ [][NextDelete]_vars


(***************************************************************************)
(* Properties                                                              *)
(***************************************************************************)
\* the run ended through the cleaning phase and the final save
Done == pc = "idle" /\ status = "Ready"

\* the manifest paths that existed before the run and lie under an excluded folder
ExcludedBefore == {p \in Paths : Has(preManifest[p]) /\ isExcluded(p, excludedFolders)}

\* the saved manifest mirrors the filtered local tree
Mirrored == Keys(savedManifest) = Range(filesToSync) \cup ExcludedBefore

C2_OnlyOrphansDeleted == \A d \in deletes : d.path \notin Range(filesToSync)

\* a call of syncVault: accepted (a run starts) or rejected
SyncVaultCalled == runs' # runs \/ (rejected' /\ ~rejected)

\* C3: a call of syncVault made while isSyncing is true changes neither isSyncing,
\* cancelRequested, the folder memo, the manifest nor the local index, issues no
\* remote call and starts no second run body.
C3_ReentrantCallRejected ==
    [][(isSyncing /\ SyncVaultCalled) =>
          UNCHANGED <<isSyncing, cancelRequested, folderIdCache, remoteManifest, savedManifest, savedIndex, manVars,
                      syncIndex, remote, creates, updates, deletes, pc, task, lim, runs>>]_vars

C3_Witness == rejected /\ isSyncing /\ cancelRequested /\ pc = "await"

\* C4: a filtered local path whose hash in the diff pass equals the hash of its
\* manifest entry gets no uploadFile and no updateFile call in the run, and is kept.
C4_HashSkip ==
    \A p \in Range(filesToSync) :
        (diffHash[p] # 0 /\ Has(preManifest[p]) /\ preManifest[p].hash = diffHash[p])
            => (creates[p] = 0 /\ updates[p] = 0 /\ p \in keptRemotePaths)

C4_Witness ==
    /\ Done
    /\ \E p \in Range(filesToSync) :
          diffHash[p] # 0 /\ Has(preManifest[p]) /\ preManifest[p].hash = diffHash[p]
    /\ \E q \in Paths : creates[q] > 0

\* the run in progress follows another run, and no local file changed in between
NoLocalChange == runs >= 2 /\ ~editedSince

NoTransferCall == creates = Zero /\ updates = Zero

OrphanOutcome ==
    /\ creates = ("B" :> 1) @@ ("C" :> 1) @@ Zero
    /\ updates = Zero
    /\ deletes = {[path |-> "D", id |-> 4]}
    /\ Keys(savedManifest) = {"A", "B", "C"}

FirstRunDone == runs = 1 /\ Done /\ ~loadFailed

ParentsOf(S) == UNION {Range(parents[i]) : i \in S}
RECURSIVE UpTo(_, _)
UpTo(S, n) == IF n = 0 THEN S ELSE UpTo(S \cup ParentsOf(S), n - 1)
Ancestors(i) == UpTo(ParentsOf({i}), Cardinality(DIds))

\* deleteFile was called with a scope, for an object that is neither the scope
\* nor below it
OutOfScope ==
    /\ dpc # "idle"
    /\ dScopeId # NoScope
    /\ dFileId # dScopeId
    /\ dScopeId \notin Ancestors(dFileId)

\* C7: deleteFile(fileId, scopeId) for a fileId that is neither scopeId nor a
\* descendant of scopeId throws the security violation and issues no trashed=true
\* update.
C7_DeletionSafety ==
    OutOfScope => /\ dpc # "trash"
                  /\ requests = {}
                  /\ dpc = "done" => dResult = "security"

C7_Witness == OutOfScope /\ dpc = "done" /\ dResult = "security" /\ Len(parents[dFileId]) > 1

\* C8: the walk of isDescendant issues at most MAX_DEPTH parent lookups, whatever
\* the parent metadata; when the depth is exhausted, an object has no parents or
\* a lookup fails it returns false, and deleteFile throws the security violation
\* without deleting.
C8_BoundedWalk ==
    /\ lookups <= MAX_DEPTH
    /\ dpc = "walk" => (lookups = depth /\ depth < MAX_DEPTH)
    /\ isSafe \in {"noParents", "lookupFailed", "depthExhausted"}
          => (dpc = "done" /\ dResult = "security" /\ requests = {})

C8_Witness == isSafe = "depthExhausted" /\ lookups = MAX_DEPTH /\ dResult = "security"

\* C9: every request deleteFile issues is an update that sets trashed=true; no
\* permanent delete is issued.
C9_SoftDelete == \A r \in requests : r.op = "files.update" /\ r.trashed

C9_Witness == dResult = "ok" /\ isSafe = "found" /\ requests = {TrashRequest(dFileId)}

\* the jobs of the limiter that have started and not settled
Started == {j \in JobIds : job[j] = "running"}

\* C10: for a limiter pLimit(n), after any enqueue calls and completions at most n
\* tasks have started and not settled.
C10_AtMostLimit ==
    /\ Cardinality(Started) <= lim.limit
    /\ lim.running = Started
    /\ lim.activeCount = Cardinality(Started)

C10_Witness ==
    /\ Cardinality(Started) = lim.limit
    /\ Len(lim.queue) > 0
    /\ \E j \in JobIds : job[j] \in {"resolved", "rejected"}

\* a step in which job j is handed to the limiter
Enqueued(j) == job[j] = "new" /\ job'[j] # "new"

\* a step in which the running job j settles, by success or by failure
Settled(j) == job[j] = "running" /\ job'[j] \in {"resolved", "rejected"}

Others(j) == [k \in JobIds \ {j} |-> job[k]]
OthersAfter(j) == [k \in JobIds \ {j} |-> job'[k]]

\* C11: a job handed to the limiter starts at once when fewer than limit jobs are
\* running and is queued (last) otherwise; when a running job settles, resolved or
\* rejected alike, the first queued job is dequeued and started; nothing else
\* changes for the other jobs: a failure settles only the failing job.
C11_StartQueueDequeue ==
    [][\A j \in JobIds :
          /\ Enqueued(j) =>
                /\ IF Cardinality(Started) < lim.limit
                   THEN job'[j] = "running" /\ lim'.queue = lim.queue
                   ELSE job'[j] = "queued" /\ lim'.queue = Append(lim.queue, j)
                /\ OthersAfter(j) = Others(j)
          /\ Settled(j) =>
                IF lim.queue = <<>>
                THEN OthersAfter(j) = Others(j) /\ lim'.queue = <<>>
                ELSE /\ job[Head(lim.queue)] = "queued"
                     /\ job'[Head(lim.queue)] = "running"
                     /\ lim'.queue = Tail(lim.queue)
                     /\ \A k \in JobIds \ {j, Head(lim.queue)} : job'[k] = job[k]
      ]_vars

C11_Witness ==
    \E j, k, l \in JobIds :
        /\ job[j] = "rejected"
        /\ startedBy[k] = j /\ job[k] = "resolved"
        /\ job[l] = "running" /\ startedBy[l] = 0

\* the transfer tasks that were dispatched and have not settled
Unsettled == {p \in Paths : task[p] \in {"queued", "yield", "call", "ret"}}

\* C12: no orphan deleteFile call is issued while a transfer task dispatched in the
\* run has not settled: the cleaning phase follows the transfers.
C12_CleaningAfterTransfers ==
    [][(deletes' \ deletes # {}) => (Unsettled = {} /\ pc = "clean")]_vars

C12_Witness ==
    /\ pc = "cleanDel"
    /\ \E p, q \in Paths : p # q /\ task[p] = "settled" /\ task[q] = "settled" /\ creates[p] > 0

Completed == {p \in Paths : task[p] = "settled" /\ p \in keptRemotePaths}

\* C14 (as stated): a run that ends Cancelled has issued no orphan deletion and
\* has persisted the manifest and the local index; the persisted manifest holds
\* an entry with the hash of the local content for every completed item, and
\* for every other path exactly what the loaded manifest held for it.
C14_CancelScenario ==
    (pc = "idle" /\ status = "Cancelled") =>
        /\ deletes = {}
        /\ savedManifest = remoteManifest /\ savedIndex = syncIndex
        /\ \A p \in Paths :
              IF p \in Completed
              THEN Has(savedManifest[p]) /\ savedManifest[p].hash = local[p].hash
              ELSE savedManifest[p] = preManifest[p]

(***************************************************************************)
(* C15  Resumable protocol: one initiate call and one content PUT          *)
(***************************************************************************)
Resumable    == upc \in {"token", "init", "buffer", "put"} \/ (upc \in {"done", "threw"} /\ attempt >= 1)
InitiateCall == [op |-> "initiate", url |-> Endpoint, range |-> NoRange]
PutCall      == [op |-> "put", url |-> session,
                 range |-> [first |-> 0, last |-> size - 1, total |-> size]]

\* an attempt of the resumable operation ends: by a restart, by the error or by the return
AttemptEnds  == Resumable /\ (attempt' # attempt \/ (upc \notin {"done", "threw"} /\ upc' \in {"done", "threw"}))

\* the success response to the PUT arrives
PutSucceeds  == upc = "put" /\ fpc = "fetch" /\ sent' = sent + 1 /\ resOk(res')

PutExpired == upc = "put" /\ fpc = "fetch" /\ sent' = sent + 1 /\ res'.status = 410

\* C16: a 410 on the content PUT restarts the operation from the access token and
\* the session initiation, one attempt more and none of the calls of the expired
\* attempt kept, as long as fewer than maxAttempts attempts were made; at
\* maxAttempts the operation throws. Every initiation that succeeds opens a new
\* session, every PUT goes to the session opened by its own attempt, and a
\* success response to the PUT of any attempt ends the operation with success.
C16_ExpiredSessionRestarts ==
    [][/\ PutExpired =>
             IF attempt < maxAttempts
             THEN attempt' = attempt + 1 /\ upc' = "token" /\ calls' = <<>> /\ fpc' = "none"
             ELSE upc' = "threw" /\ attempt' = attempt
       /\ (upc = "init" /\ upc' = "buffer") => session' = session + 1
       /\ (upc' = "put" /\ upc # "put") =>
             (upc = "buffer" /\ calls'[2].url = session /\ session' = session)
       /\ attempt' <= maxAttempts
       /\ PutSucceeds => upc' = "done"]_vars

C16_Witness ==
    /\ upc = "threw" /\ attempt = maxAttempts /\ session = maxAttempts
    /\ res.status = 410 /\ Len(calls) = 2

(***************************************************************************)
(* C17  fetchWithRetry: three tries, doubling backoff                      *)
(***************************************************************************)
\* fetch() answered with a response (it did not throw)
Answered == fpc = "fetch" /\ sent' = sent + 1 /\ ~threw(res')

\* C17: a response with status 408, 429 or 5xx is retried after a wait of
\* BaseBackoff * 2^i (i counts the tries made before) while fewer than `retries`
\* requests were sent, and at the last try the call throws; any other response
\* is handed to the caller at once: no further request, no wait.
C17_RetryWithBackoff ==
    [][/\ (Answered /\ res'.status \in {408, 429, 500, 599}) =>
             IF sent' < retries
             THEN /\ fpc' = "sleep" /\ slept' = Append(slept, BaseBackoff * 2^fi)
                  /\ upc' = upc /\ attempt' = attempt
             ELSE /\ fpc' = "none" /\ slept' = slept
                  /\ (upc' = "threw" \/ attempt' = attempt + 1)
       /\ (Answered /\ res'.status \notin {408, 429, 500, 599}) =>
             (fpc' = "none" /\ slept' = slept /\ fi' = fi /\ backoff' = backoff)
       /\ (fpc = "sleep" /\ fpc' # "sleep") =>
             (fpc' = "fetch" /\ fi' = fi + 1 /\ backoff' = 2 * backoff /\ sent' = sent)
       /\ fpc' # "none" =>
             /\ fi' < retries /\ sent' <= retries
             /\ backoff' = BaseBackoff * 2^fi'
             /\ sent' = fi' + (IF fpc' = "sleep" THEN 1 ELSE 0)
             /\ slept' = [k \in 1..sent' |-> BaseBackoff * 2^(k - 1)]]_vars

C17_Witness ==
    /\ upc = "threw" /\ fpc = "none" /\ sent = retries
    /\ slept = <<BaseBackoff, 2 * BaseBackoff>>
    /\ res.status = 599

(***************************************************************************)
(* C18  forceResync is refused while a run is in progress                  *)
(***************************************************************************)
\* a call of forceResync returned at its guard
ForceRefusal == ~refused /\ refused'

\* a call of forceResync passed its guard
ForceEntry == frpc = "idle" /\ frpc' # "idle"

\* C18: while isSyncing is true no call of forceResync passes the guard; the
\* call returns and leaves the remote root and what it holds, the local index,
\* the folder memo, the root id, the manifest and the count of runs as they
\* were, and the live run where it was. While forceResync awaits the deletion
\* isSyncing is true, a call of syncVault is rejected, and no run starts.
C18_ForceResyncRefusedWhileSyncing ==
    [][/\ isSyncing => ~ForceEntry
       /\ (isSyncing /\ ForceRefusal) =>
             /\ UNCHANGED <<remote, rootVars, manVars, savedManifest, savedIndex>>
             /\ UNCHANGED <<syncIndex, folderIdCache, isSyncing, cancelRequested>>
             /\ UNCHANGED <<runs, pc, frpc, status, remoteManifest, task>>
       /\ frpc \in {"lookup", "delete"} =>
             /\ isSyncing /\ pc = "idle"
             /\ runs' = runs /\ pc' = "idle"
             /\ ENABLED SyncVaultRejected \/ rejected]_vars

\* forceResync is called while the tasks of a run are awaited, and returns
C18_Witness ==
    /\ refused /\ isSyncing /\ pc = "await" /\ frpc = "idle"
    /\ \E p \in Paths : task[p] \notin {"none", "settled"}

(***************************************************************************)
(* C19  force-resync: clean slate after the delete phase                   *)
(***************************************************************************)
\* C19: when the delete phase of forceResync is over (the settings are being
\* saved, syncVault is called next), the remote root holds no manifest and no
\* file, and the local index is empty, whatever the manifest and the index
\* held before.
C19_CleanSlateAfterDelete ==
    frpc = "save" =>
        /\ manifestContent = "none" /\ savedManifest = EmptyManifest
        /\ syncIndex = NoIndexes

(***************************************************************************)
(* C20  a manifest that cannot be loaded does not abort the run            *)
(***************************************************************************)
\* loadManifest returned; the object is absent, a call failed, or the content
\* is not a manifest
LoadedWithout ==
    /\ pc = "load" /\ pc' # "load"
    /\ manifestContent # "manifest" \/ fails' # fails

\* C20: when the manifest object is absent, the lookup or the download fails,
\* or the content is not a manifest, the run goes on to Diffing with an empty
\* manifest, and from then on it reaches Failed only through a call that fails.
C20_LoadNeverAborts ==
    [][/\ LoadedWithout =>
             /\ pc' = "diff" /\ status' = "Checking" /\ isSyncing'
             /\ remoteManifest' = EmptyManifest
       /\ (loadFailed /\ status' = "Failed" /\ status # "Failed") => fails' = fails + 1]_vars

(***************************************************************************)
(* C21  a failure on one item does not end the run                         *)
(***************************************************************************)
\* a call made for one item fails: the hash of the file at the head of the diff
\* pass, or a call of the transfer task of some file
ItemFails ==
    /\ fails' = fails + 1
    /\ \/ pc = "diff"
       \/ \E p \in Paths : task[p] \in {"yield", "call"} /\ task'[p] = "settled"

\* C21: an exception raised while one item is diffed or transferred is caught
\* for that item: the run is still live after it, not Failed, and the other
\* items stay where they were (the rest of the diff pass, the other tasks).
C21_PerItemIsolation ==
    [][ItemFails =>
          /\ isSyncing' /\ pc' # "idle" /\ status' # "Failed"
          /\ pc = "diff" => diffTodo' = Tail(diffTodo)]_vars

(***************************************************************************)
(* C22  a token that cannot be minted ends the run                         *)
(***************************************************************************)
\* C22: when getAccessToken fails in a transfer of the run, the run ends
\* Failed at that step, and from then on no transfer call and no deletion is
\* issued by it.
C22_AuthExpiredIsFatal ==
    [][/\ (authExpired' /\ ~authExpired) => (status' = "Failed" /\ ~isSyncing')
       /\ (authExpired /\ authExpired') =>
             /\ creates' = creates /\ updates' = updates /\ deletes' = deletes
             /\ remote' = remote]_vars

(***************************************************************************)
(* C23  index hash and manifest hash agree after a completed run           *)
(***************************************************************************)
\* p has an index entry and a manifest entry, and the file is as it was when
\* the index entry was written (or is gone)
BothWritten(p) ==
    /\ syncIndex[p] # NoIndex /\ Has(savedManifest[p])
    /\ local[p] = NoFile \/ syncIndex[p].lastModified = local[p].mtime

\* C23: when a run has ended Ready (cleaning done, manifest and index saved),
\* every path that has both an index entry and a manifest entry and was not
\* modified since carries the same hash in both.
C23_IndexHashIsManifestHash ==
    (pc = "idle" /\ status = "Ready") =>
        \A p \in Paths : BothWritten(p) => syncIndex[p].hash = savedManifest[p].hash

(***************************************************************************)
(* C24: for any interleaving of the saveManifest calls of a run (the       *)
(* incremental saves of the transfer tasks and the final save), at most    *)
(* one manifest object is ever created under the sync root.                *)
(***************************************************************************)
C24_OneManifestObject == created <= 1 /\ Cardinality(Found) <= 1

(***************************************************************************)
(* C25: saveManifest is an upsert. With a cached id it updates by that id  *)
(* and stops on success; when that update fails it forgets the id and      *)
(* looks the manifest up by name, updates the object found and creates one *)
(* only if the lookup finds none; after a successful save the cached id is *)
(* the id of the object that was written.                                  *)
(***************************************************************************)
SaveEnters(c)   == sv[c].pc \in {"item", "await"} /\ sv'[c].pc \in {"updateCached", "lookup"}
SaveSucceeds(c) == sv[c].pc \in {"updateCached", "updateFound", "create"} /\ sv'[c].pc = "settings"
WrittenId(c)    == IF sv[c].pc = "create" THEN created + 2 ELSE sv[c].target

UpsertEntry(c) ==
    SaveEnters(c) =>
        IF thisManifestId # 0
        THEN sv'[c].pc = "updateCached" /\ sv'[c].target = thisManifestId
        ELSE sv'[c].pc = "lookup"

UpsertCached(c) ==
    (sv[c].pc = "updateCached" /\ sv'[c].pc # "updateCached") =>
        \/ /\ sv'[c].pc = "settings" /\ created' = created
           /\ objects' = [objects EXCEPT ![sv[c].target] = sv[c].content]
        \/ sv'[c].pc = "lookup" /\ thisManifestId' = 0 /\ objects' = objects

UpsertLookup(c) ==
    (sv[c].pc = "lookup" /\ sv'[c].pc # "lookup") =>
        \/ sv'[c].pc = "updateFound" /\ objects[sv'[c].target] # Absent
        \/ sv'[c].pc = "create" /\ Found = {}
        \/ sv'[c].pc \in {"idle", "failed"} /\ objects' = objects

UpsertCachesWritten(c) ==
    SaveSucceeds(c) =>
        thisManifestId' = WrittenId(c) /\ objects'[WrittenId(c)] = sv[c].content

C25_SaveManifestIsUpsert ==
    [][\A c \in Callers : /\ UpsertEntry(c) /\ UpsertCached(c) /\ UpsertLookup(c)
                          /\ UpsertCachesWritten(c)]_vars

\* the first three clauses of C25 alone
C25_UpsertBranches ==
    [][\A c \in Callers : UpsertEntry(c) /\ UpsertCached(c) /\ UpsertLookup(c)]_vars

(***************************************************************************)
(* C28: during Transferring, when the items completed since the last flush *)
(* reach the count of 50 or the interval has elapsed, the manifest and     *)
(* then the index are flushed and the counter is reset; so a crash at any  *)
(* point of Transferring loses at most that window of completed items.     *)
(***************************************************************************)
Saving(c) == sv[c].pc \in {"updateCached", "lookup", "updateFound", "create", "settings"}

\* the flush is begun when due, manifest first, and the counter reset
CheckpointFlushes ==
    \A t \in Tasks :
        /\ (sv[t].pc = "item" /\ sv'[t].pc # "item" /\ completed' = completed + 1) =>
              IF filesSinceLastSave + 1 >= CheckpointCount \/ now - lastSaveTime > CheckpointInterval
              THEN /\ sv'[t].pc \in {"updateCached", "lookup"} /\ sv'[t].content = completed'
                   /\ filesSinceLastSave' = 0 /\ lastSaveTime' = now
              ELSE sv'[t].pc = "idle" /\ filesSinceLastSave' = filesSinceLastSave + 1
        /\ indexDone' # indexDone =>
              \E c \in Callers : sv[c].pc = "settings" /\ indexDone' = sv[c].content
        /\ (sv'[t].pc = "settings" /\ sv[t].pc # "settings") =>
              SaveSucceeds(t) /\ objects'[WrittenId(t)] = sv[t].content

C28_FlushWhenDue == [][CheckpointFlushes]_vars

\* with no flush under way, the completed items that are not on disk are
\* at most the window
C28_CrashLosesAtMostWindow ==
    (sv[0].pc = "await" /\ \A t \in Tasks : ~Saving(t)) =>
        completed - indexDone <= CheckpointCount

(***************************************************************************)
(* C26: within one run ensureFolderStructure is memoized. Resolving a path *)
(* that was already resolved, or a prefix of one, issues no getFileId and  *)
(* no createFolder, so every folder path is looked up and created at most  *)
(* once in the run, also while tasks resolve folders concurrently.         *)
(***************************************************************************)
C26_FolderMemoized ==
    /\ \A p \in FolderPaths : lookedUp[p] <= 1 /\ made[p] <= 1
    /\ \A c \in Resolvers :
          ens[c].pc \in {"lookup", "create"} => PathPrefix(ens[c].path, ens[c].i) \notin folderIdCache
    /\ \A p \in resolved : \A i \in 1..Len(p) : PathPrefix(p, i) \in folderIdCache

\* the loop resolves a folder while a task resolves the nested folder that was
\* dispatched before: the prefix and the nested path were looked up once each
C26_Witness ==
    /\ <<"a", "b">> \in resolved
    /\ ens[0].pc = "lookup" /\ ens[0].path = <<"b">>
    /\ \E t \in Tasks : ens[t].pc = "root" /\ ens[t].path = <<"a", "b">>
    /\ ensured >= 2
    /\ lookedUp[<<"a">>] = 1 /\ lookedUp[<<"a", "b">>] = 1 /\ made[<<"a", "b">>] = 1

(***************************************************************************)
(* C27: the folder memo of the session is discarded at the start of every  *)
(* run: no remote folder id resolved in an earlier run, the id of the sync *)
(* root included, is used by a later run without being resolved again.     *)
(***************************************************************************)
\* getVaultRoot returns to syncVault
RootReturned == pc = "init" /\ pc' = "load"

C27_MemoDiscardedEachRun ==
    [][RootReturned => folderIdCache = {} /\ rootFolderId = 0]_vars

\* the part of C27 about the folders below the root
C27_FolderMemoCleared == [][RootReturned => folderIdCache = {}]_vars

(***************************************************************************)
(* C29: a run goes through its phases only in the order Initializing,      *)
(* Diffing, Transferring, Cleaning and ends in exactly one of Done (status *)
(* Ready), Cancelled or Failed; no transfer of a vault file is begun       *)
(* before the classification of all filtered files has finished or was cut *)
(* short by cancel; no phase is entered again within the run.              *)
(***************************************************************************)
PhaseOf(at) ==
    CASE at \in {"init", "load"} -> 1
      [] at = "diff" -> 2
      [] at \in {"dispatch", "resolve", "list", "await"} -> 3
      [] at \in {"clean", "cleanDel", "save", "saveCancel"} -> 4
      [] at = "idle" -> 5

TransferBegins == \E p \in Paths : task[p] # "call" /\ task'[p] = "call"

C29_PhasesInOrder ==
    [][/\ runs' = runs => PhaseOf(pc') >= PhaseOf(pc)
       /\ runs' # runs => pc = "idle" /\ pc' = "init" /\ runs' = runs + 1
       /\ (PhaseOf(pc) = 4 /\ PhaseOf(pc') = 4) => (pc = "saveCancel") = (pc' = "saveCancel")
       /\ TransferBegins => PhaseOf(pc) >= 3 /\ (cancelRequested \/ diffTodo = <<>>)
       /\ (pc # "idle" /\ pc' = "idle") =>
             status' \in {"Ready", "Cancelled", "Failed"} /\ ~isSyncing']_vars

\* a run that classified, transferred and cleaned has ended Ready
C29_Witness ==
    /\ pc = "idle" /\ status = "Ready" /\ runs = 1
    /\ \E p \in Paths : task[p] = "settled" /\ creates[p] > 0
    /\ deletes # {}

(***************************************************************************)
(* C30: in Cleaning, a manifest path that was not kept in this run but is  *)
(* an excluded folder or lies under one is left untouched: no deleteFile   *)
(* is issued for it, and its manifest entry and its index entry stay as    *)
(* they are.                                                               *)
(***************************************************************************)
UnderExcluded(p) == \E ex \in excludedFolders : Segs(p)[1] = ex

Spared == {p \in Paths : p \notin keptRemotePaths /\ UnderExcluded(p) /\ Has(remoteManifest[p])}

SparedUntouched ==
    \A p \in Spared :
        /\ remoteManifest'[p] = remoteManifest[p]
        /\ syncIndex'[p] = syncIndex[p]
        /\ remote'[p] = remote[p]
        /\ \A d \in deletes' : d.path # p
        /\ ~(pc' = "cleanDel" /\ cleanPath' = p)

C30_ExcludedLeftInCleaning ==
    [][(pc \in {"clean", "cleanDel"}) => SparedUntouched]_vars

\* Cleaning has gone through the manifest: an orphan was deleted, the entry
\* under the excluded folder is still there
C30_Witness ==
    /\ pc = "save" /\ status = "Cleaning"
    /\ "E" \in Spared /\ syncIndex["E"] # NoIndex /\ remote["E"] # NoObj
    /\ \E d \in deletes : d.path = "D"

(***************************************************************************)
(* C31: a failure of one orphan deletion in Cleaning ends that deletion    *)
(* only: the manifest entry and the index entry of the path are kept, the  *)
(* remaining orphans are still processed, and the run still saves the      *)
(* manifest and ends Ready; when a deletion succeeds the manifest entry    *)
(* and the index entry of the path are both removed.                       *)
(***************************************************************************)
DeletionEnds  == pc = "cleanDel" /\ pc' # "cleanDel"
DeletionFails == DeletionEnds /\ fails' = fails + 1

DeletionIsolated ==
    /\ DeletionFails =>
          /\ remoteManifest' = remoteManifest /\ syncIndex' = syncIndex
          /\ pc' = "clean" /\ cleanTodo' = cleanTodo
          /\ isSyncing' /\ status' = status
    /\ (DeletionEnds /\ ~DeletionFails) =>
          /\ remoteManifest' = [remoteManifest EXCEPT ![cleanPath] = NoEntry]
          /\ syncIndex' = [syncIndex EXCEPT ![cleanPath] = NoIndex]
          /\ pc' = "clean"
    \* after a failed deletion the run is Failed only by a later failing call
    /\ (delFailed /\ pc # "idle" /\ pc' = "idle") =>
          \/ status' = "Ready" /\ savedManifest' = remoteManifest /\ savedIndex' = syncIndex
          \/ status' = "Failed" /\ fails' = fails + 1

C31_DeletionFailureIsLocal == [][DeletionIsolated]_vars

\* a run in which one deletion failed and another orphan was deleted has
\* ended Ready, the entry of the failed one saved
C31_Witness ==
    /\ pc = "idle" /\ status = "Ready" /\ delFailed
    /\ \E d, e \in deletes :
          /\ d.path # e.path
          /\ Has(savedManifest[d.path]) /\ ~Has(savedManifest[e.path])

(***************************************************************************)
(* C32: smart recovery avoids blind duplication. For a path without a      *)
(* manifest entry whose remote name is in the listing of its folder, the   *)
(* run never issues a create: it reuses the listed id without a transfer   *)
(* (binary: remote checksum equal to the local hash; document: remote      *)
(* modification time later than the local mtime) or overwrites that id     *)
(* with an update.                                                         *)
(***************************************************************************)
Decides(p)  == task[p] = "yield" /\ task'[p] # "yield" /\ fails' = fails
Listed4(p)  == ~Has(remoteManifest[p]) /\ remoteFolderCache[p] # NoObj
SameRemote(p) ==
    IF isDocType(p) THEN remoteFolderCache[p].modifiedTime > local[p].mtime
    ELSE remoteFolderCache[p].md5 = localHashOf(p)

NoBlindCreate ==
    \A p \in Paths :
        /\ (Decides(p) /\ Listed4(p)) =>
              /\ creates' = creates
              /\ remoteManifest'[p].driveId = remoteFolderCache[p].id
              /\ IF SameRemote(p)
                 THEN /\ task'[p] = "settled" /\ updates' = updates /\ remote' = remote
                      /\ remoteManifest'[p].hash = localHashOf(p)
                      /\ p \in keptRemotePaths'
                 ELSE task'[p] = "call" /\ updates'[p] = updates[p] + 1
        \* the transfer that follows writes the object of the entry
        /\ (task[p] = "call" /\ task'[p] = "settled" /\ fails' = fails /\ Has(remoteManifest[p])) =>
              /\ remoteManifest'[p].driveId = remoteManifest[p].driveId
              /\ {remote'[q].id : q \in Paths} \subseteq {remote[q].id : q \in Paths}

C32_NoBlindDuplication == [][NoBlindCreate]_vars

\* the manifest was lost: the newer remote document A was adopted without a
\* transfer, the older remote document C was overwritten under its id
C32_Witness ==
    /\ pc = "idle" /\ status = "Ready" /\ runs = 1
    /\ ~Has(preManifest["A"]) /\ ~Has(preManifest["C"])
    /\ savedManifest["A"] = [driveId |-> 1, hash |-> 1] /\ updates["A"] = 0
    /\ savedManifest["C"] = [driveId |-> 3, hash |-> 1] /\ updates["C"] = 1
    /\ creates = Zero

(***************************************************************************)
(* C33: diff classification. For every filtered file: when an index entry  *)
(* exists whose stored modification time is the file's current one, the    *)
(* cached hash is used and the content is not read, else a fresh hash is   *)
(* computed; the file is classified Skip exactly when a manifest entry     *)
(* with an equal hash exists; after a Skip the index entry of the path     *)
(* carries the file's current modification time and that hash.             *)
(***************************************************************************)
Classifies == pc = "diff" /\ diffTodo # <<>> /\ diffTodo' = Tail(diffTodo) /\ fails' = fails
IndexIsCurrent(p) == syncIndex[p] # NoIndex /\ syncIndex[p].lastModified = local[p].mtime

DiffVerdict ==
    LET p == Head(diffTodo)
        h == IF IndexIsCurrent(p) THEN syncIndex[p].hash ELSE local[p].hash
        skip == remoteManifest[p] # NoEntry /\ remoteManifest[p].hash = h
    IN  /\ Classifies =>
              /\ diffHash'[p] = h
              /\ IF skip
                 THEN /\ filesToUpload' = filesToUpload
                      /\ p \in keptRemotePaths'
                      /\ syncIndex'[p] # NoIndex
                      /\ syncIndex'[p].lastModified = local[p].mtime
                      /\ syncIndex'[p].hash = h
                 ELSE /\ filesToUpload' = Append(filesToUpload, p)
                      /\ syncIndex' = syncIndex /\ keptRemotePaths' = keptRemotePaths
        \* the content is read only without a current index entry
        /\ (pc = "diff" /\ diffTodo # <<>> /\ fails' = fails + 1) => ~IndexIsCurrent(p)

C33_DiffClassification == [][DiffVerdict]_vars

\* the classification is over: A was skipped on its cached hash, which is not
\* the hash of its content, and another file was hashed and queued
C33_Witness ==
    /\ pc = "dispatch"
    /\ "A" \in keptRemotePaths /\ diffHash["A"] # local["A"].hash
    /\ syncIndex["A"].hash = diffHash["A"]
    /\ \E i \in DOMAIN filesToUpload : diffHash[filesToUpload[i]] = local[filesToUpload[i]].hash

(***************************************************************************)
(* C34: whenever the session is idle (isSyncing false) no transfer task    *)
(* dispatched by an earlier run is still queued or in flight: a run does   *)
(* not return to idle, by Ready, Cancelled or Failed, before every task it *)
(* dispatched has settled.                                                 *)
(***************************************************************************)
C34_IdleHasNoLiveTask ==
    ~isSyncing => \A p \in Paths : task[p] \notin {"queued", "yield", "call", "ret"}

\* the runs that end Ready or Cancelled have awaited their tasks
C34_AwaitedUnlessFailed ==
    [][(isSyncing /\ ~isSyncing' /\ status' # "Failed") =>
          \A p \in Paths : task'[p] \notin {"queued", "yield", "call", "ret"}]_vars

(***************************************************************************)
(* C35: manifest round-trip. After saveManifest(rootId, m) has returned, a *)
(* following loadManifest(rootId) of the same ManifestManager returns m,   *)
(* whatever came before: also a force-resync that trashed the former root  *)
(* and a load that found no manifest under the new root while a manifest   *)
(* id was still cached.                                                    *)
(***************************************************************************)
\* the final save of a run returns (status Ready), m being remoteManifest: what
\* a lookup by name under the root finds then is m
FinalSaveReturns == pc = "save" /\ pc' = "idle" /\ status' = "Ready"

C35_SavedManifestLoadsBack ==
    [][FinalSaveReturns => manifestContent' = "manifest" /\ savedManifest' = remoteManifest]_vars

(***************************************************************************)
(* C36: every manifest entry that saveManifest persists (checkpoint flush, *)
(* cancelled save or final save) records a hash of content transferred to  *)
(* or verified on its remote id: the forced-overwrite placeholder (hash    *)
(* 'mismatch') of smart recovery is never persisted.                       *)
(***************************************************************************)
C36_PersistedHashIsTransferred ==
    \A p \in Paths : Has(savedManifest[p]) => savedManifest[p].hash # Mismatch

(***************************************************************************)
(* C37: in every reachable manifest distinct paths map to distinct remote  *)
(* ids, also for a document and a canvas of one base name in one folder    *)
(* whose entries come from smart recovery.                                 *)
(***************************************************************************)
C37_DistinctRemoteIds ==
    \A f, g \in FolderFiles :
        (f # g /\ Has(nmManifest[f]) /\ Has(nmManifest[g]))
            => nmManifest[f].driveId # nmManifest[g].driveId

(***************************************************************************)
(* C38: every cancel request that cancelSync accepts takes effect: from    *)
(* the request on, the live run issues no orphan deletion and starts no    *)
(* upload, and it ends Cancelled, not Done (status Ready).                 *)
(***************************************************************************)
CancelTakesEffect ==
    (isSyncing /\ cancelRequested /\ runs' = runs) =>
        /\ deletes' \subseteq deletes
        /\ \A p \in Paths : task[p] \in {"none", "queued"} => task'[p] # "call"
        /\ ~isSyncing' => status' # "Ready"

C38_AcceptedCancelTakesEffect == [][CancelTakesEffect]_vars

(***************************************************************************)
(* C39: every started syncVault or forceResync eventually returns the      *)
(* session to Idle (isSyncing false, no call live), whatever its outcome,  *)
(* provided every call that was issued returns or fails; isSyncing is      *)
(* never left true once the operation has ended.                           *)
(***************************************************************************)
OperationEnded == pc = "idle" /\ frpc = "idle"
SessionIdle    == OperationEnded /\ ~isSyncing

C39_EventuallyIdle == (isSyncing ~> SessionIdle) /\ [](OperationEnded => ~isSyncing)

\* runs and force-resyncs have ended in every way: the last one Failed after a
\* force-resync that created a new root
C39_Witness ==
    /\ SessionIdle /\ runs = MaxRuns /\ status = "Failed"
    /\ rootGen > 1

(***************************************************************************)
(* C40: in pLimit every enqueued task is started exactly once and, when    *)
(* every running task settles, every queued task eventually starts; queued *)
(* tasks start in the order they were enqueued; the running counter never  *)
(* goes below 0, and the queue is non-empty only while the counter equals  *)
(* the limit.                                                              *)
(***************************************************************************)
CounterAndQueue ==
    /\ lim.activeCount >= 0
    /\ lim.queue # <<>> => lim.activeCount = lim.limit

\* a job starts from new or queued only, a settled job stays settled, a queued
\* job is once in the queue, and no queued job starts while one enqueued before
\* it is still queued
StartsOnceInOrder ==
    /\ \A j \in JobIds :
          /\ (job[j] # "running" /\ job'[j] = "running") => job[j] \in {"new", "queued"}
          /\ job[j] \in {"resolved", "rejected"} => job'[j] = job[j]
          /\ job[j] = "running" => job'[j] \in {"running", "resolved", "rejected"}
          /\ job[j] = "queued" <=> Cardinality({i \in 1..Len(lim.queue) : lim.queue[i] = j}) = 1
    /\ \A i, k \in 1..Len(lim.queue) :
          (i < k /\ job'[lim.queue[k]] = "running") => job'[lim.queue[i]] = "running"

C40_LimiterStartsAll ==
    /\ []CounterAndQueue
    /\ [][StartsOnceInOrder]_vars
    /\ \A j \in JobIds : (job[j] = "queued") ~> (job[j] = "running")

\* all jobs but one have settled; the last was queued behind another queued job
\* and was started by the settling of that one
C40_Witness ==
    \E j, k \in JobIds :
        /\ j # k /\ startedBy[j] # 0 /\ startedBy[k] = j
        /\ job[k] = "running"
        /\ \A l \in JobIds \ {k} : job[l] \in {"resolved", "rejected"}

=============================================================================
